---- MODULE Spec2Model ----
(***************************************************************************)
(* Model of the GitHub organisation governance scripts under               *)
(* .github/scripts: the three reconcilers (team membership, team           *)
(* repositories, sub-teams), the PR review evaluators (branch resolution,  *)
(* review requirements, commit status, exit code) and the repository       *)
(* health check.  Python strings that the code inspects character by       *)
(* character (usernames, permissions, branch and file names) are           *)
(* sequences of one-character strings.                                     *)
(***************************************************************************)
EXTENDS Integers, Sequences, FiniteSets, TLC

(***************************************************************************)
(* Bounds                                                                  *)
(***************************************************************************)
MaxMembers == 2
MaxRuns == 2
MaxSubteams == 2
MaxRepos == 2
MaxBranches == 3
MaxReviews == 2
MaxApprovals == 2
MaxWorkers == 2
MaxAlerts == 5
MaxOrgRepos == 3
MaxChildTeams == 2
MaxTeamFiles == 2
MaxInitialTeams == 1
MaxUpdates == 3

(***************************************************************************)
(* Generic helpers                                                         *)
(***************************************************************************)
Range(s) == {s[i] : i \in 1..Len(s)}

SeqsUpTo(S, n) == UNION {[1..k -> S] : k \in 0..n}

\* Python string literals.
READ == <<"r", "e", "a", "d">>

WRITE == <<"w", "r", "i", "t", "e">>

ADMIN == <<"a", "d", "m", "i", "n">>

MAINTAIN == <<"m", "a", "i", "n", "t", "a", "i", "n">>

TRIAGE == <<"t", "r", "i", "a", "g", "e">>

PULL == <<"p", "u", "l", "l">>

PUSH == <<"p", "u", "s", "h">>

WRITE_CAP == <<"W", "r", "i", "t", "e">>

CUSTOM_CAP == <<"C", "u", "s", "t", "o", "m">>

MAIN == <<"m", "a", "i", "n">>

RELEASE_STAR == <<"r", "e", "l", "e", "a", "s", "e", "/", "*">>

RELEASE_1_0 == <<"r", "e", "l", "e", "a", "s", "e", "/", "1", ".", "0">>

RELEASE_FREEZE == <<"r", "e", "l", "e", "a", "s", "e", "/", "f", "r", "e", "e", "z", "e">>

DEVELOP == <<"d", "e", "v", "e", "l", "o", "p">>

STAR == <<"*">>

CUSTOM == <<"c", "u", "s", "t", "o", "m">>

(***************************************************************************)
(* team_manage_membership.py                                               *)
(***************************************************************************)

\* The value None appearing as an element of a members list.
NoneName == <<"None">>

RECURSIVE lstrip(_, _)
lstrip(s, c) == IF s # <<>> /\ Head(s) = c THEN lstrip(Tail(s), c) ELSE s

RECURSIVE rstrip(_, _)
rstrip(s, c) ==
    IF s # <<>> /\ s[Len(s)] = c THEN rstrip(SubSeq(s, 1, Len(s) - 1), c) ELSE s

strip(s, c) == rstrip(lstrip(s, c), c)

normalize_username(username) ==
    IF username = NoneName THEN <<>> ELSE strip(lstrip(username, "@"), "'")

\* Logins that exist on the remote side and raw usernames found in teams.yml.
Logins == {<<"a">>, <<"b">>, <<"c">>}

RawNames == {<<"a">>, <<"@", "@", "a">>, <<"@", "'", "b", "'">>, NoneName}

MemberLists == SeqsUpTo(RawNames, MaxMembers)

\* The desired set computed at line 86.
DesiredOf(list) == {normalize_username(list[i]) : i \in 1..Len(list)}

\* "members_list is None or not members_list"
IsEmptyList(isNone, list) == isNone \/ list = <<>>

\* get_team_members, lines 59-65: the logins of team.get_members(), or the
\* empty set after a GithubException.
get_team_members_stale(roster, ok) == roster

get_team_members(roster, ok) == IF ok THEN roster ELSE {}

\* The set the add loop iterates over (line 90).
ToAdd_all(desired, current) == desired

ToAdd(desired, current) == desired \ current

\* The set the remove loop iterates over (line 99).
ToRemove_all(desired, current) == current

ToRemove(desired, current) == current \ desired

\* The set the loop of remove_all_members iterates over (lines 70-71).
RemoveAllTargets_none(current) == {}

RemoveAllTargets(current) == current

\* What is left of a loop after a GithubException in one iteration: the
\* except clauses (lines 95-96, 104-105, 75-76) are inside the loop body, so
\* the loop goes on with the members not yet visited.
AfterFailure_abort(rest) == {}

AfterFailure(rest) == rest

\* sync_team_memberships, lines 118 and 131: team_data.get("members", []).
ConfigMembers(team_data) ==
    IF team_data.has_members THEN team_data.members ELSE <<>>

VARIABLES
    script,           \* which script of .github/scripts this process runs
    team_roster,      \* remote: logins that are members of the team
    members_list,     \* argument of sync_team_members (a list)
    members_none,     \* TRUE when the argument is None
    members_from,     \* "argument", or "key_absent" when .get("members", []) supplied []
    desired_members,  \* line 86
    current_members,  \* line 87 / line 70
    m_fetch_ok,       \* whether team.get_members() succeeded in this run
    m_todo,           \* members the running loop has not visited yet
    m_pc,             \* position in sync_team_members
    m_calls,          \* API calls of the current run, in order
    m_outcome,        \* "none", "returned" or "raised"
    m_run,            \* number of the current run
    m_first,          \* summary of the first completed run
    m_outside         \* TRUE once the roster was changed from outside

VARIABLES
    remote_subteams,   \* remote: names of the sub-teams of the parent team
    default_sub_teams, \* names of team_data["default_sub_teams"], in file order
    existing_subteams, \* line 91
    desired_sub_teams, \* line 94
    s_fetch_ok,        \* whether get_existing_subteams could list the sub-teams
    s_idx,             \* index of the create loop (line 97)
    s_todo,            \* sub-teams the delete loop has not visited yet
    s_pc,              \* position in sync_subteams
    s_calls,           \* create_subteam / delete_subteam invocations of the run
    s_run,             \* number of the current run
    s_first,           \* summary of the first completed run
    s_outside          \* TRUE once the sub-teams were changed from outside

svars == <<remote_subteams, default_sub_teams, existing_subteams, desired_sub_teams,
           s_fetch_ok, s_idx, s_todo, s_pc, s_calls, s_run, s_first, s_outside>>

VARIABLES
    team_repos,          \* remote: permission of the team on each repository
    desired_repos,       \* argument desired_repos (a list of repository names)
    desired_repos_none,  \* TRUE when the argument is None
    desired_permissions, \* argument desired_permissions, as configured
    parent_repos,        \* argument parent_repos
    is_parent_team,      \* argument is_parent_team
    api_permission,      \* lines 99-102
    current_repos_names, \* line 112
    r_before,            \* the team's permissions when the run fetched them
    r_idx,               \* index of the add/update loop (line 147)
    r_todo,              \* repositories the removal loop has not visited yet
    r_pc,                \* position in sync_team_repos
    r_calls,             \* mutating requests of the current run, in order
    r_allok,             \* FALSE once a request of the current run failed
    r_fetch_ok,          \* whether team.get_repos() of the current run succeeded
    r_run,               \* number of the current run
    r_first,             \* configuration and summary of the first completed run
    r_outside            \* TRUE once the grants were changed from outside

rvars == <<team_repos, desired_repos, desired_repos_none, desired_permissions,
           parent_repos, is_parent_team, api_permission, current_repos_names,
           r_before, r_idx, r_todo, r_pc, r_calls, r_allok, r_fetch_ok, r_run,
           r_first, r_outside>>

VARIABLES
    branch_configs,  \* config["pull_requests"]["branches"], in file order
    target_branch,   \* the branch the pull request targets
    b_evaluator,     \* which script resolved the branch
    b_result,        \* the configuration selected, or NoConfig
    b_pc             \* "idle" or "resolved"

bvars == <<branch_configs, target_branch, b_evaluator, b_result, b_pc>>

VARIABLES
    pr_reviews,          \* pr.get_reviews(): the reviews of the PR, oldest first
    org_team_members,    \* remote: the members of each team of the organization
    required_approvals,  \* branch_config["required_approvals"]
    required_teams,      \* branch_config["required_teams"]
    reviews_fetch_ok,    \* whether pr.get_reviews() succeeds
    teams_lookup_ok,     \* per user, whether reviewer.get_teams() succeeds
    meets_requirements,  \* pr_review_manager.py line 214
    p_calls,             \* requests process_pull_request issued, in order
    commit_statuses,     \* remote: statuses created on the PR head commit
    p_pc,                \* position in process_pull_request
    github_output_set,   \* whether GITHUB_OUTPUT names a file that can be appended to
    github_output,       \* lines appended to the GITHUB_OUTPUT file
    v_result,            \* what validate_pr_requirements returned: "None" before it returns
    v_calls,             \* requests validate_pr_requirements issued, in order
    exit_code,           \* process exit code of validate_pr_requirements.main, -1 while running
    v_pc                 \* position in validate_pr_requirements.main

pvars == <<pr_reviews, org_team_members, required_approvals, required_teams,
           reviews_fetch_ok, teams_lookup_ok, meets_requirements, p_calls,
           commit_statuses, p_pc, github_output_set, github_output, v_result,
           v_calls, exit_code, v_pc>>

VARIABLES
    org_repos,      \* list(self.org.get_repos()): what the API reports of each repository
    health_config,  \* self.config
    h_queue,        \* submitted checks no worker thread has taken yet
    h_running,      \* checks in progress in a worker thread
    h_finished,     \* checks whose future is done
    h_collected,    \* checks whose result the loop of lines 272-275 has seen
    results,        \* line 267
    scan_outcome,   \* "none", "returned" or "raised"
    h_pc            \* position in scan_organization

hvars == <<org_repos, health_config, h_queue, h_running, h_finished, h_collected,
           results, scan_outcome, h_pc>>

VARIABLES
    team_dirs,         \* local: names of the directories under teams/
    configured_teams,  \* team_name of every entry of the root teams.yml
    gh_teams,          \* remote: the parent teams of the organization
    gh_subteams,       \* remote: per parent team, its sub-teams
    d_dirs_before,     \* team_dirs when main started
    d_listed,          \* per team, the sub-teams team.get_teams() returned
    d_todo,            \* teams_to_remove not processed yet
    d_team,            \* the team delete_github_team is working on
    d_subs,            \* sub-teams the loop of lines 60-65 has not reached yet
    d_calls,           \* requests and file operations main issued, in order
    d_returned,        \* per team, what delete_github_team returned: "None" before
    deleted_teams,     \* line 138
    commit_calls,      \* the deleted_teams arguments commit_changes was called with
    d_outcome,         \* "none", "returned" or "raised"
    d_pc               \* position in team_manage_parent_teams.main

dvars == <<team_dirs, configured_teams, gh_teams, gh_subteams, d_dirs_before,
           d_listed, d_todo, d_team, d_subs, d_calls, d_returned, deleted_teams,
           commit_calls, d_outcome, d_pc>>

VARIABLES
    env_set,       \* whether GITHUB_TOKEN and GITHUB_ORGANIZATION are set
    org_ok,        \* whether gh.get_organization(org_name) succeeds
    team_files,    \* the teams/*/teams.yml files main processes, by what they hold
    c_idx,         \* index of the file the loop of main is at
    c_errors,      \* the exceptions main logged with "Failed to process"
    main_exit,     \* what main returned: -1 while it runs
    c_pc           \* position in main

cvars == <<env_set, org_ok, team_files, c_idx, c_errors, main_exit, c_pc>>

VARIABLES
    teams_yml,   \* the root teams.yml file, as the YAML document it holds
    u_initial,   \* the file before the first call of update_teams_config
    u_before,    \* the file before the latest call
    u_new,       \* new_team_config of the latest call
    u_result,    \* what the latest call returned: "None" before the first
    u_calls      \* number of calls so far

uvars == <<teams_yml, u_initial, u_before, u_new, u_result, u_calls>>

VARIABLES
    branch_contexts,   \* remote: required status-check contexts of the default branch
    desired_contexts,  \* branch_protection.required_status_checks of repo_settings.yml
    g_changes,         \* the required_status_checks change the first validation reported
    g_applied,         \* whether apply_repository_changes ran with every call succeeding
    g_second,          \* the change a validation after the apply reported
    g_validate_ok,     \* whether the latest validation could read the protection
    g_pc               \* "validate", "apply", "revalidate" or "done"

gvars == <<branch_contexts, desired_contexts, g_changes, g_applied, g_second,
           g_validate_ok, g_pc>>

VARIABLES
    root_team,           \* the team's entry of the root teams.yml
    team_file_exists,    \* whether teams/<team_name>/teams.yml exists
    team_file,           \* its 'teams' mapping, by key
    t_written,           \* whether create_team_directory wrote the file
    t_parent_permissions, \* parent_permissions of sync_team_repositories (line 219)
    t_granted,           \* per repository, the permission requested for the parent team
    t_pc                 \* "setup", "sync" or "done"

tvars == <<root_team, team_file_exists, team_file, t_written, t_parent_permissions,
           t_granted, t_pc>>

mvars == <<team_roster, members_list, members_none, members_from, desired_members,
           current_members, m_fetch_ok, m_todo, m_pc, m_calls, m_outcome, m_run,
           m_first, m_outside>>

others_m == <<script, svars, rvars, bvars, pvars, hvars, dvars, cvars, uvars,
              gvars, tvars>>

others_s == <<script, mvars, rvars, bvars, pvars, hvars, dvars, cvars, uvars,
              gvars, tvars>>

others_r == <<script, mvars, svars, bvars, pvars, hvars, dvars, cvars, uvars,
              gvars, tvars>>

others_b == <<script, mvars, svars, rvars, pvars, hvars, dvars, cvars, uvars,
              gvars, tvars>>

others_p == <<script, mvars, svars, rvars, hvars, dvars, cvars, uvars, gvars,
              tvars>>

others_h == <<script, mvars, svars, rvars, bvars, pvars, dvars, cvars, uvars,
              gvars, tvars>>

others_d == <<script, mvars, svars, rvars, bvars, pvars, hvars, cvars, uvars,
              gvars, tvars>>

others_c == <<script, mvars, svars, rvars, bvars, pvars, hvars, dvars, uvars,
              gvars, tvars>>

others_u == <<script, mvars, svars, rvars, bvars, pvars, hvars, dvars, cvars,
              gvars, tvars>>

others_g == <<script, mvars, svars, rvars, bvars,
             pvars, hvars, dvars, cvars, uvars, tvars>>

others_t == <<script, mvars, svars, rvars, bvars,
             pvars, hvars, dvars, cvars, uvars, gvars>>

NoRun == [done |-> FALSE, list |-> <<>>, none |-> FALSE, allok |-> FALSE,
          mutating |-> 0]

MembersStart ==
    /\ members_list = <<>>
    /\ members_none = FALSE
    /\ members_from = "argument"
    /\ desired_members = {}
    /\ current_members = {}
    /\ m_fetch_ok = FALSE
    /\ m_todo = {}
    /\ m_pc = "idle"
    /\ m_calls = <<>>
    /\ m_outcome = "none"
    /\ m_run = 0
    /\ m_first = NoRun
    /\ m_outside = FALSE

MembersIdle ==
    /\ team_roster = {}
    /\ MembersStart

Call(op, arg, ok) == [op |-> op, arg |-> arg, ok |-> ok]

AllOk(calls) == \A i \in 1..Len(calls) : calls[i].ok

\* Entry of sync_team_members (lines 79-87): the guard on the empty list and
\* the computation of the desired set.  The teams.yml file is not edited
\* between two runs: a later run gets the configuration of the first one.
EnterSync(list, isNone, from) ==
    /\ script = "team_manage_membership"
    /\ m_pc = "idle"
    /\ m_run < MaxRuns
    /\ m_first.done => (list = m_first.list /\ isNone = m_first.none)
    /\ m_run' = m_run + 1
    /\ members_list' = list
    /\ members_none' = isNone
    /\ members_from' = from
    /\ m_calls' = <<>>
    /\ m_outcome' = "none"
    /\ m_todo' = {}
    /\ current_members' = {}
    /\ m_fetch_ok' = FALSE
    /\ IF IsEmptyList(isNone, list)
         THEN /\ desired_members' = {}
              /\ m_pc' = "remove_all_fetch"
         ELSE /\ desired_members' = DesiredOf(list)
              /\ m_pc' = "fetch"
    /\ UNCHANGED <<team_roster, m_first, m_outside>>
    /\ UNCHANGED others_m

\* sync_team_members called with a list or with None.
SyncTeamMembers ==
    \/ \E list \in MemberLists : EnterSync(list, FALSE, "argument")
    \/ EnterSync(<<>>, TRUE, "argument")

\* sync_team_memberships (lines 108-139) reaching sync_team_members for a
\* team whose config has no "members" key; with the key present the call is
\* the one of SyncTeamMembers with the configured value.
SyncTeamMemberships ==
    \E team_data \in [has_members : {FALSE}, members : MemberLists] :
        EnterSync(ConfigMembers(team_data), FALSE, "key_absent")

\* get_team_members (lines 59-65), called at line 87 or at line 70.
GetTeamMembers ==
    /\ m_pc \in {"fetch", "remove_all_fetch"}
    /\ \E ok \in BOOLEAN :
        LET fetched == get_team_members(team_roster, ok) IN
        /\ m_fetch_ok' = ok
        /\ current_members' = fetched
        /\ m_calls' = Append(m_calls, Call("get_members", <<>>, ok))
        /\ IF m_pc = "fetch"
             THEN /\ m_pc' = "add"
                  /\ m_todo' = ToAdd(desired_members, fetched)
             ELSE /\ m_pc' = "remove_all"
                  /\ m_todo' = RemoveAllTargets(fetched)
    /\ UNCHANGED <<team_roster, members_list, members_none, members_from,
                   desired_members, m_outcome, m_run, m_first, m_outside>>
    /\ UNCHANGED others_m

\* One iteration of the add loop (lines 90-96).
AddMember ==
    /\ m_pc = "add"
    /\ m_todo # {}
    /\ \E member \in m_todo, user_ok \in BOOLEAN, add_ok \in BOOLEAN :
        LET rest == m_todo \ {member} IN
        IF ~user_ok
          THEN /\ m_calls' = Append(m_calls, Call("get_user", member, FALSE))
               /\ team_roster' = team_roster
               /\ m_todo' = AfterFailure(rest)
          ELSE /\ m_calls' = m_calls \o <<Call("get_user", member, TRUE),
                                          Call("add_membership", member, add_ok)>>
               /\ team_roster' = IF add_ok THEN team_roster \cup {member}
                                           ELSE team_roster
               /\ m_todo' = IF add_ok THEN rest ELSE AfterFailure(rest)
    /\ UNCHANGED <<members_list, members_none, members_from, desired_members,
                   current_members, m_fetch_ok, m_pc, m_outcome, m_run, m_first,
                   m_outside>>
    /\ UNCHANGED others_m

\* The add loop is exhausted: the remove loop starts (line 99).
StartRemove ==
    /\ m_pc = "add"
    /\ m_todo = {}
    /\ m_pc' = "remove"
    /\ m_todo' = ToRemove(desired_members, current_members)
    /\ UNCHANGED <<team_roster, members_list, members_none, members_from,
                   desired_members, current_members, m_fetch_ok, m_calls,
                   m_outcome, m_run, m_first, m_outside>>
    /\ UNCHANGED others_m

\* One iteration of the remove loop (lines 99-105).
RemoveMember ==
    /\ m_pc = "remove"
    /\ m_todo # {}
    /\ \E member \in m_todo, user_ok \in BOOLEAN, rm_ok \in BOOLEAN :
        LET rest == m_todo \ {member} IN
        IF ~user_ok
          THEN /\ m_calls' = Append(m_calls, Call("get_user", member, FALSE))
               /\ team_roster' = team_roster
               /\ m_todo' = AfterFailure(rest)
          ELSE /\ m_calls' = m_calls \o <<Call("get_user", member, TRUE),
                                          Call("remove_membership", member, rm_ok)>>
               /\ team_roster' = IF rm_ok THEN team_roster \ {member}
                                          ELSE team_roster
               /\ m_todo' = IF rm_ok THEN rest ELSE AfterFailure(rest)
    /\ UNCHANGED <<members_list, members_none, members_from, desired_members,
                   current_members, m_fetch_ok, m_pc, m_outcome, m_run, m_first,
                   m_outside>>
    /\ UNCHANGED others_m

\* One iteration of the loop of remove_all_members (lines 71-76).
RemoveAllMembers ==
    /\ m_pc = "remove_all"
    /\ m_todo # {}
    /\ \E member \in m_todo, rm_ok \in BOOLEAN :
        LET rest == m_todo \ {member} IN
        /\ m_todo' = IF rm_ok THEN rest ELSE AfterFailure(rest)
        /\ m_calls' = Append(m_calls, Call("remove_membership", member, rm_ok))
        /\ team_roster' = IF rm_ok THEN team_roster \ {member} ELSE team_roster
    /\ UNCHANGED <<members_list, members_none, members_from, desired_members,
                   current_members, m_fetch_ok, m_pc, m_outcome, m_run, m_first,
                   m_outside>>
    /\ UNCHANGED others_m

\* sync_team_members returns (line 84 or the end of the remove loop).  No
\* path of the function lets a GithubException out: every API call sits in
\* a try block with an except GithubException clause.
ReturnSync ==
    /\ m_pc \in {"remove", "remove_all"}
    /\ m_todo = {}
    /\ m_pc' = "done"
    /\ m_outcome' = "returned"
    /\ m_first' = IF m_first.done THEN m_first
                  ELSE [done |-> TRUE, list |-> members_list, none |-> members_none,
                        allok |-> AllOk(m_calls),
                        mutating |-> Cardinality({i \in 1..Len(m_calls) :
                            m_calls[i].op \in {"add_membership", "remove_membership"}})]
    /\ UNCHANGED <<team_roster, members_list, members_none, members_from,
                   desired_members, current_members, m_fetch_ok, m_todo, m_calls,
                   m_run, m_outside>>
    /\ UNCHANGED others_m

\* The workflow is triggered again: the locals of the finished run are gone.
NextRun ==
    /\ m_pc = "done"
    /\ m_run < MaxRuns
    /\ m_pc' = "idle"
    /\ members_list' = <<>>
    /\ members_none' = FALSE
    /\ members_from' = "argument"
    /\ desired_members' = {}
    /\ current_members' = {}
    /\ m_fetch_ok' = FALSE
    /\ m_calls' = <<>>
    /\ m_outcome' = "none"
    /\ UNCHANGED <<team_roster, m_todo, m_run, m_first, m_outside>>
    /\ UNCHANGED others_m

\* Somebody else changes the team between two runs.
OutsideMemberChange ==
    /\ m_pc = "idle"
    /\ m_run >= 1
    /\ ~m_outside
    /\ \E r \in SUBSET Logins :
        /\ r # team_roster
        /\ team_roster' = r
    /\ m_outside' = TRUE
    /\ UNCHANGED <<members_list, members_none, members_from, desired_members,
                   current_members, m_fetch_ok, m_todo, m_pc, m_calls, m_outcome,
                   m_run, m_first>>
    /\ UNCHANGED others_m

(***************************************************************************)
(* team_manage_subteams.py                                                 *)
(***************************************************************************)
SubNames == {"sub-a", "sub-b", "sub-c"}

SubteamLists == SeqsUpTo(SubNames, MaxSubteams)

\* Line 98: a desired sub-team is created when its name is not among the
\* existing ones.
NeedsCreate_always(name, existing) == TRUE

NeedsCreate(name, existing) == name \notin existing

\* Line 102: team_to_delete.
SubteamsToDelete(existing, desired) == existing \ desired

\* The create loop after a failed create_subteam: the GithubException is
\* caught inside create_subteam (lines 70-71), the loop goes to the next entry.
NextIndexAfterFailure(idx, len) == idx + 1

SubCall(op, arg, ok, issued) == [op |-> op, arg |-> arg, ok |-> ok, issued |-> issued]

SubteamsStart ==
    /\ default_sub_teams = <<>>
    /\ existing_subteams = {}
    /\ desired_sub_teams = {}
    /\ s_fetch_ok = FALSE
    /\ s_idx = 1
    /\ s_todo = {}
    /\ s_pc = "idle"
    /\ s_calls = <<>>
    /\ s_run = 0
    /\ s_first = NoRun
    /\ s_outside = FALSE

SubteamsIdle ==
    /\ remote_subteams = {}
    /\ SubteamsStart

\* sync_subteams, lines 86-94: get_existing_subteams (lines 48-55) returns
\* the empty set when the API call fails.  A later run reads the same file.
SyncSubteams ==
    /\ script = "team_manage_subteams"
    /\ s_pc = "idle"
    /\ s_run < MaxRuns
    /\ \E list \in SubteamLists, ok \in BOOLEAN :
        /\ s_first.done => list = s_first.list
        /\ default_sub_teams' = list
        /\ s_fetch_ok' = ok
        /\ existing_subteams' = IF ok THEN remote_subteams ELSE {}
        /\ desired_sub_teams' = Range(list)
    /\ s_run' = s_run + 1
    /\ s_idx' = 1
    /\ s_todo' = {}
    /\ s_calls' = <<>>
    /\ s_pc' = "create"
    /\ UNCHANGED <<remote_subteams, s_first, s_outside>>
    /\ UNCHANGED others_s

\* One iteration of the create loop (lines 97-99) with create_subteam
\* (lines 58-71): get_team_by_slug of the parent, then org.create_team.
CreateSubteam ==
    /\ s_pc = "create"
    /\ s_idx <= Len(default_sub_teams)
    /\ LET name == default_sub_teams[s_idx] IN
        IF NeedsCreate(name, existing_subteams)
          THEN \E slug_ok \in BOOLEAN, create_ok \in BOOLEAN :
                /\ s_calls' = Append(s_calls,
                        SubCall("create_subteam", name, slug_ok /\ create_ok, slug_ok))
                /\ remote_subteams' = IF slug_ok /\ create_ok
                                        THEN remote_subteams \cup {name}
                                        ELSE remote_subteams
                /\ s_idx' = IF slug_ok /\ create_ok
                              THEN s_idx + 1
                              ELSE NextIndexAfterFailure(s_idx, Len(default_sub_teams))
          ELSE /\ s_idx' = s_idx + 1
               /\ UNCHANGED <<s_calls, remote_subteams>>
    /\ UNCHANGED <<default_sub_teams, existing_subteams, desired_sub_teams,
                   s_fetch_ok, s_todo, s_pc, s_run, s_first, s_outside>>
    /\ UNCHANGED others_s

\* The create loop is exhausted: the delete loop starts (lines 102-103).
StartDelete ==
    /\ s_pc = "create"
    /\ s_idx > Len(default_sub_teams)
    /\ s_pc' = "delete"
    /\ s_todo' = SubteamsToDelete(existing_subteams, desired_sub_teams)
    /\ UNCHANGED <<remote_subteams, default_sub_teams, existing_subteams,
                   desired_sub_teams, s_fetch_ok, s_idx, s_calls, s_run, s_first,
                   s_outside>>
    /\ UNCHANGED others_s

\* One iteration of the delete loop (lines 103-104) with delete_subteam
\* (lines 74-81): get_team_by_slug, then team.delete().
DeleteSubteam ==
    /\ s_pc = "delete"
    /\ s_todo # {}
    /\ \E name \in s_todo, slug_ok \in BOOLEAN, delete_ok \in BOOLEAN :
        /\ s_todo' = s_todo \ {name}
        /\ s_calls' = Append(s_calls,
                SubCall("delete_subteam", name, slug_ok /\ delete_ok, slug_ok))
        /\ remote_subteams' = IF slug_ok /\ delete_ok
                                THEN remote_subteams \ {name}
                                ELSE remote_subteams
    /\ UNCHANGED <<default_sub_teams, existing_subteams, desired_sub_teams,
                   s_fetch_ok, s_idx, s_pc, s_run, s_first, s_outside>>
    /\ UNCHANGED others_s

\* sync_subteams returns.
ReturnSubteams ==
    /\ s_pc = "delete"
    /\ s_todo = {}
    /\ s_pc' = "done"
    /\ s_first' = IF s_first.done THEN s_first
                  ELSE [done |-> TRUE, list |-> default_sub_teams, none |-> FALSE,
                        allok |-> s_fetch_ok /\ AllOk(s_calls),
                        mutating |-> Cardinality({i \in 1..Len(s_calls) :
                            s_calls[i].issued})]
    /\ UNCHANGED <<remote_subteams, default_sub_teams, existing_subteams,
                   desired_sub_teams, s_fetch_ok, s_idx, s_todo, s_calls, s_run,
                   s_outside>>
    /\ UNCHANGED others_s

\* The workflow is triggered again.
NextSubteamsRun ==
    /\ s_pc = "done"
    /\ s_run < MaxRuns
    /\ s_pc' = "idle"
    /\ default_sub_teams' = <<>>
    /\ existing_subteams' = {}
    /\ desired_sub_teams' = {}
    /\ s_fetch_ok' = FALSE
    /\ s_idx' = 1
    /\ s_calls' = <<>>
    /\ UNCHANGED <<remote_subteams, s_todo, s_run, s_first, s_outside>>
    /\ UNCHANGED others_s

\* Somebody else creates or deletes sub-teams between two runs.
OutsideSubteamChange ==
    /\ s_pc = "idle"
    /\ s_run >= 1
    /\ ~s_outside
    /\ \E r \in SUBSET SubNames :
        /\ r # remote_subteams
        /\ remote_subteams' = r
    /\ s_outside' = TRUE
    /\ UNCHANGED <<default_sub_teams, existing_subteams, desired_sub_teams,
                   s_fetch_ok, s_idx, s_todo, s_pc, s_calls, s_run, s_first>>
    /\ UNCHANGED others_s

(***************************************************************************)
(* team_manage_resource.py                                                 *)
(***************************************************************************)
UpperLetters == <<"A", "B", "C", "D", "E", "F", "G", "H", "I", "J", "K", "L", "M",
                  "N", "O", "P", "Q", "R", "S", "T", "U", "V", "W", "X", "Y", "Z">>

LowerLetters == <<"a", "b", "c", "d", "e", "f", "g", "h", "i", "j", "k", "l", "m",
                  "n", "o", "p", "q", "r", "s", "t", "u", "v", "w", "x", "y", "z">>

lower_char(c) ==
    IF \E i \in 1..Len(UpperLetters) : UpperLetters[i] = c
      THEN LowerLetters[CHOOSE i \in 1..Len(UpperLetters) : UpperLetters[i] = c]
      ELSE c

\* str.lower()
lower(str) == [i \in 1..Len(str) |-> lower_char(str[i])]

\* Line 96, as a set of <<key, value>> pairs.
permission_mapping ==
    { <<READ, PULL>>,
      <<WRITE, PUSH>>,
      <<ADMIN, ADMIN>>,
      <<MAINTAIN, MAINTAIN>>,
      <<TRIAGE, TRIAGE>> }

MappingKeys == {kv[1] : kv \in permission_mapping}

MappingValue(key) == (CHOOSE kv \in permission_mapping : kv[1] = key)[2]

\* Lines 99-102 without the case folding.
ApiPermission_verbatim(permission) ==
    IF permission \in MappingKeys THEN MappingValue(permission) ELSE permission

\* Lines 99-102.
ApiPermission(permission) ==
    IF lower(permission) \in MappingKeys
      THEN MappingValue(lower(permission))
      ELSE lower(permission)

\* Line 163: team_repo_permission != api_permission.  team.get_repo_permission
\* is taken to return the name of the permission the team holds, as the
\* repository's tests mock it (test_sync_team_repos_update_permissions).
PermissionDiffers_always(team_repo_permission, permission) == TRUE

PermissionDiffers(team_repo_permission, permission) ==
    team_repo_permission # permission

\* Line 174: a granted repository is revoked when it is not desired.
NeedsRevoke_unlessParent(name, desired, parents, isParent) ==
    name \notin Range(desired) /\ (isParent \/ name \notin parents)

NeedsRevoke(name, desired, parents, isParent) == name \notin Range(desired)

\* remove_team_repository, lines 69-79: the statuses it reports as removed.
RemoveSuccess(status) == status \in {"204", "404"}

\* What get_repo_permission finds for a repository the team has no grant on.
NoPermission == <<"None">>

RepoNames == {"repo1", "repo2"}

RepoLists == SeqsUpTo(RepoNames, MaxRepos)

\* Values of repository_permissions found in teams.yml files.
PermissionInputs == {READ, WRITE, WRITE_CAP, ADMIN, MAINTAIN, TRIAGE, CUSTOM_CAP}

\* Permissions a team may hold when the script starts.
RemotePermissions == {NoPermission, PULL}

\* parent_repos / is_parent_team as sync_team_repositories passes them
\* (lines 221 and 235-243).
ParentSettings ==
    {[is_parent |-> TRUE, parents |-> {}], [is_parent |-> FALSE, parents |-> {"repo1"}]}

Granted(repos) == {r \in RepoNames : repos[r] # NoPermission}

RepoCall(op, why, repo, permission, ok, warned) ==
    [op |-> op, why |-> why, repo |-> repo, permission |-> permission, ok |-> ok,
     warned |-> warned]

NoRepoRun == [done |-> FALSE, repos |-> <<>>, none |-> FALSE, permission |-> <<>>,
              parents |-> {}, is_parent |-> FALSE, allok |-> FALSE, mutating |-> 0]

ReposStart ==
    /\ desired_repos = <<>>
    /\ desired_repos_none = FALSE
    /\ desired_permissions = <<>>
    /\ parent_repos = {}
    /\ is_parent_team = FALSE
    /\ api_permission = <<>>
    /\ current_repos_names = {}
    /\ r_idx = 1
    /\ r_todo = {}
    /\ r_pc = "idle"
    /\ r_calls = <<>>
    /\ r_allok = TRUE
    /\ r_fetch_ok = TRUE
    /\ r_run = 0
    /\ r_first = NoRepoRun
    /\ r_outside = FALSE

ReposIdle ==
    /\ team_repos = [r \in RepoNames |-> NoPermission]
    /\ r_before = [r \in RepoNames |-> NoPermission]
    /\ ReposStart

\* sync_team_repos, lines 96-114: the permission is mapped, the team's
\* repositories are fetched; a GithubException of team.get_repos() ends the
\* function in the handler of lines 204-206.  A later run reads the same file.
SyncTeamRepos ==
    /\ script = "team_manage_resource"
    /\ r_pc = "idle"
    /\ r_run < MaxRuns
    /\ \E repos \in RepoLists, none \in BOOLEAN, permission \in PermissionInputs,
          setting \in ParentSettings, fetch_ok \in BOOLEAN :
        /\ none => repos = <<>>
        /\ r_first.done =>
              /\ repos = r_first.repos
              /\ none = r_first.none
              /\ permission = r_first.permission
              /\ setting.parents = r_first.parents
              /\ setting.is_parent = r_first.is_parent
        /\ desired_repos' = repos
        /\ desired_repos_none' = none
        /\ desired_permissions' = permission
        /\ parent_repos' = setting.parents
        /\ is_parent_team' = setting.is_parent
        /\ api_permission' = ApiPermission(permission)
        /\ r_allok' = fetch_ok
        /\ r_fetch_ok' = fetch_ok
        /\ r_before' = team_repos
        /\ IF ~fetch_ok
             THEN /\ current_repos_names' = {}
                  /\ r_todo' = {}
                  /\ r_pc' = "return"
             ELSE /\ current_repos_names' = Granted(team_repos)
                  /\ IF none \/ Len(repos) = 0
                       THEN /\ r_pc' = "remove_all"
                            /\ r_todo' = Granted(team_repos)
                       ELSE /\ r_pc' = "add_update"
                            /\ r_todo' = {}
    /\ r_run' = r_run + 1
    /\ r_idx' = 1
    /\ r_calls' = <<>>
    /\ UNCHANGED <<team_repos, r_first, r_outside>>
    /\ UNCHANGED others_r

\* One iteration of the add/update loop (lines 147-170).
AddOrUpdateRepo ==
    /\ r_pc = "add_update"
    /\ r_idx <= Len(desired_repos)
    /\ \E get_repo_ok \in BOOLEAN, add_ok \in BOOLEAN, perm_ok \in BOOLEAN,
          update_ok \in BOOLEAN :
        LET repo_name == desired_repos[r_idx]
            adding == repo_name \notin current_repos_names
            add_calls ==
                IF adding
                  THEN <<RepoCall("update_team_repository", "add", repo_name,
                                  api_permission, add_ok, FALSE)>>
                  ELSE <<>>
            after_add ==
                IF adding /\ add_ok
                  THEN [team_repos EXCEPT ![repo_name] = api_permission]
                  ELSE team_repos
            team_repo_permission == after_add[repo_name]
            updating == perm_ok /\ PermissionDiffers(team_repo_permission, api_permission)
            update_calls ==
                IF updating
                  THEN <<RepoCall("update_team_repository", "update", repo_name,
                                  api_permission, update_ok, FALSE)>>
                  ELSE <<>>
            after_update ==
                IF updating /\ update_ok
                  THEN [after_add EXCEPT ![repo_name] = api_permission]
                  ELSE after_add
        IN IF ~get_repo_ok
             THEN /\ r_allok' = FALSE
                  /\ UNCHANGED <<team_repos, r_calls>>
             ELSE /\ r_calls' = r_calls \o add_calls \o update_calls
                  /\ team_repos' = after_update
                  /\ r_allok' = (/\ r_allok
                                 /\ adding => add_ok
                                 /\ perm_ok
                                 /\ updating => update_ok)
    /\ r_idx' = r_idx + 1
    /\ UNCHANGED <<desired_repos, desired_repos_none, desired_permissions,
                   parent_repos, is_parent_team, api_permission,
                   current_repos_names, r_before, r_todo, r_pc, r_run, r_first,
                   r_outside>>
    /\ UNCHANGED r_fetch_ok
    /\ UNCHANGED others_r

\* The add/update loop is exhausted: the removal loop starts (lines 173-174).
StartRevoke ==
    /\ r_pc = "add_update"
    /\ r_idx > Len(desired_repos)
    /\ r_pc' = "revoke"
    /\ r_todo' = {r \in current_repos_names :
                    NeedsRevoke(r, desired_repos, parent_repos, is_parent_team)}
    /\ UNCHANGED <<team_repos, desired_repos, desired_repos_none,
                   desired_permissions, parent_repos, is_parent_team,
                   api_permission, current_repos_names, r_before, r_idx, r_calls,
                   r_allok, r_run, r_first, r_outside>>
    /\ UNCHANGED r_fetch_ok
    /\ UNCHANGED others_r

\* One removal (lines 115-143 or 173-202): the warning for a sub-team, the
\* DELETE request of remove_team_repository (lines 53-83) and, when that
\* reports a failure, team.remove_from_repos.
RevokeRepo ==
    /\ r_pc \in {"revoke", "remove_all"}
    /\ r_todo # {}
    /\ \E name \in r_todo, get_repo_ok \in BOOLEAN,
          status \in {"204", "404", "500"}, fallback_ok \in BOOLEAN :
        LET warned == ~is_parent_team /\ parent_repos # {} /\ name \in parent_repos
            delete_call == RepoCall("DELETE", status, name, <<>>, status = "204", warned)
            fallback_call == RepoCall("remove_from_repos", "fallback", name, <<>>,
                                      fallback_ok, warned)
        IN /\ r_todo' = r_todo \ {name}
           /\ IF ~get_repo_ok
                THEN /\ r_allok' = FALSE
                     /\ UNCHANGED <<team_repos, r_calls>>
                ELSE IF RemoveSuccess(status)
                  THEN /\ r_calls' = Append(r_calls, delete_call)
                       /\ team_repos' = IF status = "204"
                                          THEN [team_repos EXCEPT ![name] = NoPermission]
                                          ELSE team_repos
                       /\ r_allok' = (r_allok /\ status = "204")
                  ELSE /\ r_calls' = r_calls \o <<delete_call, fallback_call>>
                       /\ team_repos' = IF fallback_ok
                                          THEN [team_repos EXCEPT ![name] = NoPermission]
                                          ELSE team_repos
                       /\ r_allok' = FALSE
    /\ UNCHANGED <<desired_repos, desired_repos_none, desired_permissions,
                   parent_repos, is_parent_team, api_permission,
                   current_repos_names, r_before, r_idx, r_pc, r_run, r_first,
                   r_outside>>
    /\ UNCHANGED r_fetch_ok
    /\ UNCHANGED others_r

\* sync_team_repos returns (line 144, the end of the removal loop, or the
\* handler of lines 204-206).
ReturnRepos ==
    /\ \/ r_pc \in {"revoke", "remove_all"} /\ r_todo = {}
       \/ r_pc = "return"
    /\ r_pc' = "done"
    /\ r_first' = IF r_first.done THEN r_first
                  ELSE [done |-> TRUE, repos |-> desired_repos,
                        none |-> desired_repos_none,
                        permission |-> desired_permissions,
                        parents |-> parent_repos, is_parent |-> is_parent_team,
                        allok |-> r_allok, mutating |-> Len(r_calls)]
    /\ UNCHANGED <<team_repos, desired_repos, desired_repos_none,
                   desired_permissions, parent_repos, is_parent_team,
                   api_permission, current_repos_names, r_before, r_idx, r_todo,
                   r_calls, r_allok, r_run, r_outside>>
    /\ UNCHANGED r_fetch_ok
    /\ UNCHANGED others_r

\* The workflow is triggered again.
NextReposRun ==
    /\ r_pc = "done"
    /\ r_run < MaxRuns
    /\ r_pc' = "idle"
    /\ desired_repos' = <<>>
    /\ desired_repos_none' = FALSE
    /\ desired_permissions' = <<>>
    /\ parent_repos' = {}
    /\ is_parent_team' = FALSE
    /\ api_permission' = <<>>
    /\ current_repos_names' = {}
    /\ r_before' = team_repos
    /\ r_idx' = 1
    /\ r_calls' = <<>>
    /\ r_allok' = TRUE
    /\ r_fetch_ok' = TRUE
    /\ UNCHANGED <<team_repos, r_todo, r_run, r_first, r_outside>>
    /\ UNCHANGED others_r

\* Somebody else grants or revokes one repository between two runs.
OutsideRepoChange ==
    /\ r_pc = "idle"
    /\ r_run >= 1
    /\ ~r_outside
    /\ \E r \in RepoNames, permission \in RemotePermissions :
        /\ team_repos[r] # permission
        /\ team_repos' = [team_repos EXCEPT ![r] = permission]
        /\ r_before' = [team_repos EXCEPT ![r] = permission]
    /\ r_outside' = TRUE
    /\ UNCHANGED <<desired_repos, desired_repos_none, desired_permissions,
                   parent_repos, is_parent_team, api_permission,
                   current_repos_names, r_idx, r_todo, r_pc, r_calls, r_allok,
                   r_run, r_first>>
    /\ UNCHANGED r_fetch_ok
    /\ UNCHANGED others_r

(***************************************************************************)
(* pr_review_manager.py and validate_pr_requirements.py: branch resolution *)
(***************************************************************************)
\* An entry of the branches mapping: its key, its value (named by a label)
\* and the value's "exclude" list.
BranchEntry(pattern, config, exclude) ==
    [pattern |-> pattern, config |-> config, exclude |-> exclude]

BranchEntries ==
    { BranchEntry(MAIN, "A", {}),
      BranchEntry(RELEASE_STAR, "B", {RELEASE_FREEZE}),
      BranchEntry(RELEASE_1_0, "C", {}),
      BranchEntry(STAR, "D", {}) }

\* The mappings: every order of at most MaxBranches entries with distinct keys.
BranchMappings ==
    {m \in SeqsUpTo(BranchEntries, MaxBranches) :
        \A i, j \in 1..Len(m) : i # j => m[i].pattern # m[j].pattern}

TargetBranches == {MAIN, RELEASE_1_0, RELEASE_FREEZE, DEVELOP}

NoConfig == "None"

\* re.match(pattern.replace("*", ".*"), branch_name): "*" stands for any
\* run of characters, "." for any one character, any other character for
\* itself; the match is anchored at the start only.
RECURSIVE re_match(_, _)
re_match(pattern, str) ==
    IF pattern = <<>> THEN TRUE
    ELSE IF Head(pattern) = "*"
      THEN \E k \in 0..Len(str) : re_match(Tail(pattern), SubSeq(str, k + 1, Len(str)))
    ELSE /\ str # <<>>
         /\ Head(pattern) = "." \/ Head(pattern) = Head(str)
         /\ re_match(Tail(pattern), Tail(str))

\* "*" in pattern
HasStar(pattern) == \E i \in 1..Len(pattern) : pattern[i] = "*"

\* pattern.replace("*", "")
pattern_clean(pattern) == SelectSeq(pattern, LAMBDA c : c # "*")

\* str.startswith(prefix)
startswith(str, prefix) ==
    Len(prefix) <= Len(str) /\ SubSeq(str, 1, Len(prefix)) = prefix

\* pattern.endswith("*")
EndsWithStar(pattern) == pattern # <<>> /\ pattern[Len(pattern)] = "*"

\* pr_review_manager.py line 74.
ManagerExcluded_never(entry, branch_name) == FALSE

ManagerExcluded(entry, branch_name) == branch_name \in entry.exclude

\* validate_pr_requirements.py line 93.
ValidateExcluded(entry, branch_name) ==
    entry.exclude # {} /\ branch_name \in entry.exclude

\* The first entry at or after index i that the loop of lines 69-80 returns.
RECURSIVE ManagerPatternLoop(_, _, _)
ManagerPatternLoop(configs, branch_name, i) ==
    IF i > Len(configs) THEN NoConfig
    ELSE IF /\ HasStar(configs[i].pattern)
            /\ re_match(configs[i].pattern, branch_name)
            /\ ~ManagerExcluded(configs[i], branch_name)
      THEN configs[i].config
      ELSE ManagerPatternLoop(configs, branch_name, i + 1)

\* PRReviewManager._get_branch_config, lines 58-83.
get_branch_config(configs, branch_name) ==
    IF \E i \in 1..Len(configs) : configs[i].pattern = branch_name
      THEN configs[CHOOSE i \in 1..Len(configs) : configs[i].pattern = branch_name].config
      ELSE ManagerPatternLoop(configs, branch_name, 1)

\* validate_pr_requirements, lines 90-96.
RECURSIVE ValidateLoop(_, _, _)
ValidateLoop(configs, branch, i) ==
    IF i > Len(configs) THEN NoConfig
    ELSE IF /\ \/ configs[i].pattern = branch
               \/ /\ EndsWithStar(configs[i].pattern)
                  /\ startswith(branch, pattern_clean(configs[i].pattern))
            /\ ~ValidateExcluded(configs[i], branch)
      THEN configs[i].config
      ELSE ValidateLoop(configs, branch, i + 1)

\* pattern.replace('*', '.*') of validate_pr_assign_reviewers.py line 34.
RECURSIVE replace_star(_)
replace_star(pattern) ==
    IF pattern = <<>> THEN <<>>
    ELSE IF Head(pattern) = "*" THEN <<".", "*">> \o replace_star(Tail(pattern))
    ELSE <<Head(pattern)>> \o replace_star(Tail(pattern))

\* sub in str, the substring test of Python.
is_substring(sub, str) ==
    \E k \in 0..(Len(str) - Len(sub)) : SubSeq(str, k + 1, k + Len(sub)) = sub

\* validate_pr_assign_reviewers.py line 34.
AssignMatches(pattern, target) == is_substring(replace_star(pattern), target)

\* validate_pr_assign_reviewers.py line 35.
AssignExcluded(entry, target) ==
    entry.exclude # {} /\ target \in entry.exclude

\* assign_reviewers_and_assignees, lines 33-37.
RECURSIVE AssignLoop(_, _, _)
AssignLoop(configs, target, i) ==
    IF i > Len(configs) THEN NoConfig
    ELSE IF /\ AssignMatches(configs[i].pattern, target)
            /\ ~AssignExcluded(configs[i], target)
      THEN configs[i].config
      ELSE AssignLoop(configs, target, i + 1)

BranchIdle ==
    /\ branch_configs = <<>>
    /\ target_branch = <<>>
    /\ b_evaluator = "none"
    /\ b_result = NoConfig
    /\ b_pc = "idle"

\* PRReviewManager.process_pull_request resolving the PR's base branch.
GetBranchConfig ==
    /\ script = "pr_review_manager"
    /\ b_pc = "idle"
    /\ b_evaluator' = "pr_review_manager"
    /\ b_result' = get_branch_config(branch_configs, target_branch)
    /\ b_pc' = "resolved"
    /\ UNCHANGED <<branch_configs, target_branch>>
    /\ UNCHANGED others_b

\* validate_pr_requirements, lines 85-100.
ValidateFindBranchConfig ==
    /\ script = "validate_pr_requirements"
    /\ b_pc = "idle"
    /\ b_evaluator' = "validate_pr_requirements"
    /\ b_result' = ValidateLoop(branch_configs, target_branch, 1)
    /\ b_pc' = "resolved"
    /\ UNCHANGED <<branch_configs, target_branch>>
    /\ UNCHANGED others_b

\* assign_reviewers_and_assignees, lines 30-41: the function returns False
\* when b_result is NoConfig and goes on to assign the selected
\* configuration's teams otherwise.
AssignFindBranchConfig ==
    /\ script = "validate_pr_assign_reviewers"
    /\ b_pc = "idle"
    /\ b_evaluator' = "validate_pr_assign_reviewers"
    /\ b_result' = AssignLoop(branch_configs, target_branch, 1)
    /\ b_pc' = "resolved"
    /\ UNCHANGED <<branch_configs, target_branch>>
    /\ UNCHANGED others_b

(***************************************************************************)
(* pr_review_manager.py: review requirements and commit status             *)
(***************************************************************************)
Users == {"u1", "u2"}

Teams == {"t1", "t2"}

ReviewStates == {"APPROVED", "CHANGES_REQUESTED"}

\* pr.get_reviews(): at most MaxReviews reviews, oldest first.
ReviewLists == SeqsUpTo([user : Users, state : ReviewStates], MaxReviews)

\* The branch configuration file the two evaluators run with, and the
\* branches a pull request targets here: "main" has a configuration,
\* "develop" has none.
ReviewBranchConfigs == <<BranchEntry(MAIN, "A", {})>>

ReviewTargets == {MAIN, DEVELOP}

\* branch_config["review_teams"] and branch_config["assignees"] of "main".
review_teams == <<"t1">>

assignee_teams == <<"t2">>

\* pr.user.login
PRAuthor == "u1"

STATUS_CONTEXT == "pr-review-requirements"

\* [team.name for team in reviewer.get_teams()], line 127.
user_teams(reviewer) == {t \in Teams : reviewer \in org_team_members[t]}

\* The keys of approved_reviews after the loop of lines 122-132: a reviewer
\* whose team lookup raises GithubException is skipped.
approved_reviews(reviews, lookup_ok) ==
    {reviews[i].user : i \in {j \in 1..Len(reviews) :
        reviews[j].state = "APPROVED" /\ lookup_ok[reviews[j].user]}}

\* Lines 141-143.
approved_teams(reviews, lookup_ok) ==
    UNION {user_teams(u) : u \in approved_reviews(reviews, lookup_ok)}

\* Line 145.
AllTeamsApproved_any(teams, approved) == \E team \in teams : team \in approved

AllTeamsApproved(teams, approved) == \A team \in teams : team \in approved

\* PRReviewManager._check_required_reviews, lines 112-154.
check_required_reviews(reviews, fetch_ok, lookup_ok, approvals, teams) ==
    IF ~fetch_ok THEN FALSE
    ELSE IF Cardinality(approved_reviews(reviews, lookup_ok)) < approvals THEN FALSE
    ELSE IF teams # {} /\ ~AllTeamsApproved(teams, approved_teams(reviews, lookup_ok))
      THEN FALSE
    ELSE TRUE

\* Lines 218-231.
StatusState_failure(meets) == IF meets THEN "success" ELSE "failure"

StatusState(meets) == IF meets THEN "success" ELSE "pending"

PCall(op, arg, ok) == [op |-> op, arg |-> arg, ok |-> ok]

\* The assignees of lines 185-197, when the members of the assignee teams
\* could be listed (_get_team_members returns [] otherwise).
Assignees(members_ok) ==
    (IF members_ok
       THEN UNION {org_team_members[assignee_teams[i]] : i \in 1..Len(assignee_teams)}
       ELSE {}) \ {PRAuthor}

ReviewStart ==
    /\ meets_requirements = FALSE
    /\ p_calls = <<>>
    /\ commit_statuses = <<>>
    /\ p_pc = "start"
    /\ github_output = <<>>
    /\ v_result = "None"
    /\ v_calls = <<>>
    /\ exit_code = -1
    /\ v_pc = "start"

ReviewIdle ==
    /\ pr_reviews = <<>>
    /\ org_team_members = [t \in Teams |-> {}]
    /\ required_approvals = 0
    /\ required_teams = {}
    /\ reviews_fetch_ok = TRUE
    /\ teams_lookup_ok = [u \in Users |-> TRUE]
    /\ github_output_set = TRUE
    /\ ReviewStart

\* process_pull_request, lines 156-165.
ProcessPullRequest ==
    /\ script = "pr_review_manager"
    /\ p_pc = "start"
    /\ b_pc = "idle"
    /\ b_evaluator' = "pr_review_manager"
    /\ b_result' = get_branch_config(branch_configs, target_branch)
    /\ b_pc' = "resolved"
    /\ p_pc' = IF b_result' = NoConfig THEN "returned" ELSE "assign"
    /\ UNCHANGED <<branch_configs, target_branch>>
    /\ UNCHANGED <<pr_reviews, org_team_members, required_approvals, required_teams,
                   reviews_fetch_ok, teams_lookup_ok, meets_requirements, p_calls,
                   commit_statuses, github_output_set, github_output, v_result,
                   v_calls, exit_code, v_pc>>
    /\ UNCHANGED others_p

\* process_pull_request, lines 167-211: a GithubException of a request is
\* logged and the function goes on.
AssignTeams ==
    /\ script = "pr_review_manager"
    /\ p_pc = "assign"
    /\ \E request_ok, members_ok, add_ok \in BOOLEAN :
         p_calls' = p_calls
             \o [i \in 1..Len(review_teams) |->
                    PCall("create_review_request", {review_teams[i]}, request_ok)]
             \o (IF Assignees(members_ok) # {}
                   THEN <<PCall("add_to_assignees", Assignees(members_ok), add_ok)>>
                   ELSE <<>>)
    /\ p_pc' = "check"
    /\ UNCHANGED <<pr_reviews, org_team_members, required_approvals, required_teams,
                   reviews_fetch_ok, teams_lookup_ok, meets_requirements,
                   commit_statuses, github_output_set, github_output, v_result,
                   v_calls, exit_code, v_pc>>
    /\ UNCHANGED <<bvars, others_p>>

\* process_pull_request, line 214.
CheckRequiredReviews ==
    /\ script = "pr_review_manager"
    /\ p_pc = "check"
    /\ meets_requirements' =
           check_required_reviews(pr_reviews, reviews_fetch_ok, teams_lookup_ok,
                                  required_approvals, required_teams)
    /\ p_pc' = "status"
    /\ UNCHANGED <<pr_reviews, org_team_members, required_approvals, required_teams,
                   reviews_fetch_ok, teams_lookup_ok, p_calls,
                   commit_statuses, github_output_set, github_output, v_result,
                   v_calls, exit_code, v_pc>>
    /\ UNCHANGED <<bvars, others_p>>

\* process_pull_request, lines 216-233: a GithubException of create_status
\* is logged.
CreateStatus ==
    /\ script = "pr_review_manager"
    /\ p_pc = "status"
    /\ \E ok \in BOOLEAN :
         /\ p_calls' = Append(p_calls,
                PCall("create_status",
                      [state |-> StatusState(meets_requirements),
                       context |-> STATUS_CONTEXT], ok))
         /\ commit_statuses' =
                IF ok
                  THEN Append(commit_statuses,
                              [state |-> StatusState(meets_requirements),
                               context |-> STATUS_CONTEXT])
                  ELSE commit_statuses
    /\ p_pc' = "returned"
    /\ UNCHANGED <<pr_reviews, org_team_members, required_approvals, required_teams,
                   reviews_fetch_ok, teams_lookup_ok, meets_requirements,
                   github_output_set, github_output, v_result,
                   v_calls, exit_code, v_pc>>
    /\ UNCHANGED <<bvars, others_p>>

(***************************************************************************)
(* validate_pr_requirements.py                                             *)
(***************************************************************************)
\* Lines 158-160: the state of the last review of each reviewer.
LastReviewOf(reviews, user) ==
    LET idx == {i \in 1..Len(reviews) : reviews[i].user = user}
    IN  IF idx = {} THEN "None"
        ELSE reviews[CHOOSE i \in idx : \A j \in idx : j <= i].state

latest_reviews(reviews) == [u \in Users |-> LastReviewOf(reviews, u)]

\* Lines 116-126, when every required team exists.
all_team_members(teams) == UNION {org_team_members[t] : t \in teams}

\* Line 165.
valid_approvals(reviews, teams) ==
    Cardinality({member \in all_team_members(teams) :
                    latest_reviews(reviews)[member] = "APPROVED"})

\* Line 170.
IsValid(reviews, teams, approvals) == valid_approvals(reviews, teams) >= approvals

\* Line 124.
empty_teams(teams) == {t \in teams : org_team_members[t] = {}}

\* str(result), line 202.
PyBool(b) == IF b THEN "True" ELSE "False"

\* f"status={str(result).lower()}", line 202.
StatusLine_constant(result) == "status=true"

StatusLine(result) == IF result = "True" THEN "status=true" ELSE "status=false"

\* sys.exit(0 if result else 1), line 205.
ExitCodeOf(result) == IF result = "True" THEN 0 ELSE 1

\* main, lines 176-192, with get_pr_number (lines 8-23): the PR number comes
\* from PR_NUMBER, from the event file, or cannot be determined (ValueError).
ValidateMain ==
    /\ script = "validate_pr_requirements"
    /\ v_pc = "start"
    /\ \E source \in {"PR_NUMBER", "event_file", "undetermined"} :
         v_pc' = IF source = "undetermined" THEN "raised" ELSE "validate"
    /\ UNCHANGED <<pr_reviews, org_team_members, required_approvals, required_teams,
                   reviews_fetch_ok, teams_lookup_ok, meets_requirements, p_calls,
                   commit_statuses, p_pc, github_output_set, github_output,
                   v_result, v_calls, exit_code>>
    /\ UNCHANGED <<bvars, others_p>>

\* validate_pr_requirements, lines 63-100: an unreadable configuration file
\* and an inaccessible PR return False, a failing get_repo raises.
ValidateLoad ==
    /\ script = "validate_pr_requirements"
    /\ v_pc = "validate"
    /\ b_pc = "idle"
    /\ \E outcome \in {"ok", "config_unreadable", "get_repo_raises", "get_pull_fails"} :
         IF outcome = "get_repo_raises"
           THEN /\ v_pc' = "raised"
                /\ UNCHANGED <<v_result, b_evaluator, b_result, b_pc>>
         ELSE IF outcome # "ok"
           THEN /\ v_result' = "False"
                /\ v_pc' = "result"
                /\ UNCHANGED <<b_evaluator, b_result, b_pc>>
         ELSE /\ b_evaluator' = "validate_pr_requirements"
              /\ b_result' = ValidateLoop(branch_configs, target_branch, 1)
              /\ b_pc' = "resolved"
              /\ IF b_result' = NoConfig
                   THEN v_result' = "False" /\ v_pc' = "result"
                   ELSE v_result' = v_result /\ v_pc' = "teams"
    /\ UNCHANGED <<branch_configs, target_branch>>
    /\ UNCHANGED <<pr_reviews, org_team_members, required_approvals, required_teams,
                   reviews_fetch_ok, teams_lookup_ok, meets_requirements, p_calls,
                   commit_statuses, p_pc, github_output_set, github_output,
                   v_calls, exit_code>>
    /\ UNCHANGED others_p

\* validate_pr_requirements, lines 102-143: a required team that cannot be
\* read, or has no member, makes the function return False; the teams are
\* requested as reviewers before the empty-team check.
ValidateTeams ==
    /\ script = "validate_pr_requirements"
    /\ v_pc = "teams"
    /\ \E list_ok, request_ok \in BOOLEAN, inaccessible \in SUBSET required_teams :
         LET missing_teams == IF list_ok THEN inaccessible ELSE required_teams
         IN  IF missing_teams # {}
               THEN /\ v_result' = "False"
                    /\ v_pc' = "result"
                    /\ v_calls' = v_calls
               ELSE /\ v_calls' =
                          IF required_teams # {}
                            THEN Append(v_calls,
                                   PCall("create_review_request", required_teams, request_ok))
                            ELSE v_calls
                    /\ IF empty_teams(required_teams) # {}
                         THEN v_result' = "False" /\ v_pc' = "result"
                         ELSE v_result' = v_result /\ v_pc' = "reviews"
    /\ UNCHANGED <<pr_reviews, org_team_members, required_approvals, required_teams,
                   reviews_fetch_ok, teams_lookup_ok, meets_requirements, p_calls,
                   commit_statuses, p_pc, github_output_set, github_output, exit_code>>
    /\ UNCHANGED <<bvars, others_p>>

\* validate_pr_requirements, lines 145-173.
ValidateReviews ==
    /\ script = "validate_pr_requirements"
    /\ v_pc = "reviews"
    /\ v_result' = IF reviews_fetch_ok
                     THEN PyBool(IsValid(pr_reviews, required_teams, required_approvals))
                     ELSE "False"
    /\ v_pc' = "result"
    /\ UNCHANGED <<pr_reviews, org_team_members, required_approvals, required_teams,
                   reviews_fetch_ok, teams_lookup_ok, meets_requirements, p_calls,
                   commit_statuses, p_pc, github_output_set, github_output,
                   v_calls, exit_code>>
    /\ UNCHANGED <<bvars, others_p>>

\* main, lines 197-209: the result is appended to the GITHUB_OUTPUT file and
\* the process exits; any exception, also of the append, exits with 1.
ValidateExit ==
    /\ script = "validate_pr_requirements"
    /\ v_pc \in {"result", "raised"}
    /\ IF v_pc = "result" /\ github_output_set
         THEN /\ github_output' = Append(github_output, StatusLine(v_result))
              /\ exit_code' = ExitCodeOf(v_result)
         ELSE /\ github_output' = github_output
              /\ exit_code' = 1
    /\ v_pc' = "exited"
    /\ UNCHANGED <<pr_reviews, org_team_members, required_approvals, required_teams,
                   reviews_fetch_ok, teams_lookup_ok, meets_requirements, p_calls,
                   commit_statuses, p_pc, github_output_set, v_result, v_calls>>
    /\ UNCHANGED <<bvars, others_p>>

(***************************************************************************)
(* repo_health_check.py.  Numbers are kept exact: file weights in halves,  *)
(* component weights in tenths, severity weights in hundredths, the alert  *)
(* score in tenths; a quotient is a record [num, den] with den > 0.        *)
(***************************************************************************)
\* The upper-case letter of each lower-case letter.
UpperOf ==
    [c \in Range(LowerLetters) |->
        UpperLetters[CHOOSE i \in 1..Len(LowerLetters) : LowerLetters[i] = c]]

upper_char(c) == IF c \in DOMAIN UpperOf THEN UpperOf[c] ELSE c

\* str.upper()
upper(str) == [i \in 1..Len(str) |-> upper_char(str[i])]

README_MD == <<"R", "E", "A", "D", "M", "E", ".", "m", "d">>

README_LOWER == <<"r", "e", "a", "d", "m", "e", ".", "m", "d">>

SECURITY_MD == <<"S", "E", "C", "U", "R", "I", "T", "Y", ".", "m", "d">>

GOVERNANCE_MD == <<"G", "O", "V", "E", "R", "N", "A", "N", "C", "E", ".", "m", "d">>

PR_TEMPLATE == <<"p", "u", "l", "l", "_", "r", "e", "q", "u", "e", "s", "t", "_",
                 "t", "e", "m", "p", "l", "a", "t", "e", ".", "m", "d">>

FileEntry(required, weight) == [required |-> required, weight |-> weight]

\* config['required_files']: the required files weigh 5.0 together.
RequiredFilesWeighted ==
    (README_MD :> FileEntry(TRUE, 4)) @@ (SECURITY_MD :> FileEntry(TRUE, 2))
    @@ (PR_TEMPLATE :> FileEntry(TRUE, 4)) @@ (GOVERNANCE_MD :> FileEntry(FALSE, 1))

\* config['required_files'] with no file marked required.
RequiredFilesOptional ==
    (README_MD :> FileEntry(FALSE, 4)) @@ (SECURITY_MD :> FileEntry(FALSE, 2))
    @@ (PR_TEMPLATE :> FileEntry(FALSE, 4)) @@ (GOVERNANCE_MD :> FileEntry(FALSE, 1))

Severities == {"critical", "high", "medium", "low"}

\* config['alert_severity_weights'], lines 100-105, in hundredths.
alert_severity_weights ==
    [critical |-> 100, high |-> 75, medium |-> 50, low |-> 25]

ComponentWeights(files, scanning, dependabot) ==
    [required_files |-> files, security_scanning |-> scanning, dependabot |-> dependabot]

\* config['scoring']['thresholds'], lines 112-115.
thresholds == [green |-> 80, amber |-> 60]

\* The configurations: the default component weights {0.4, 0.3, 0.3} and
\* weights {0.5, 0.5, 0.5}; max_workers from 1 to MaxWorkers.
HealthConfigs ==
    [required_files : {RequiredFilesWeighted, RequiredFilesOptional},
     component_weights : {ComponentWeights(4, 3, 3), ComponentWeights(5, 5, 5)},
     max_workers : 1..MaxWorkers]

\* Names a repository root may hold.
RootNames == {README_MD, README_LOWER, SECURITY_MD, GOVERNANCE_MD}

\* Number of open alerts of one severity.
AlertCounts == {0, MaxAlerts}

\* What the API reports of one repository.
RepoDescriptors ==
    [archived : BOOLEAN,
     root : SUBSET RootNames,
     github_template : BOOLEAN,
     security_scanning : BOOLEAN,
     dependabot_enabled : BOOLEAN,
     alerts : [Severities -> AlertCounts]]

NoAlerts == [s \in Severities |-> 0]

RECURSIVE SumOver(_, _)
\* sum(f[x] for x in S)
SumOver(S, f) ==
    IF S = {} THEN 0
    ELSE LET x == CHOOSE y \in S : TRUE IN f[x] + SumOver(S \ {x}, f)

\* Line 173: the content names that equal a configured name up to letter case.
MatchedContents(repo, cfg) ==
    {n \in repo.root : upper(n) \in {upper(f) : f \in DOMAIN cfg.required_files}}

\* The keys of metrics['required_files'] that lines 172-181 set to True.
FilesFound(repo, cfg) ==
    MatchedContents(repo, cfg) \cup (IF repo.github_template THEN {PR_TEMPLATE} ELSE {})

\* Lines 194-198 look every key set to True up in config['required_files'].
RaisesKeyError(repo, cfg) ==
    \E file \in FilesFound(repo, cfg) : file \notin DOMAIN cfg.required_files

\* Lines 188-192.
total_weight(cfg) ==
    SumOver({f \in DOMAIN cfg.required_files : cfg.required_files[f].required},
            [f \in DOMAIN cfg.required_files |-> cfg.required_files[f].weight])

\* Lines 194-198.
weighted_sum(repo, cfg) ==
    SumOver({f \in FilesFound(repo, cfg) : cfg.required_files[f].required},
            [f \in DOMAIN cfg.required_files |-> cfg.required_files[f].weight])

\* Line 200.
required_files_score(repo, cfg) ==
    IF total_weight(cfg) > 0
      THEN [num |-> weighted_sum(repo, cfg) * 100, den |-> total_weight(cfg)]
      ELSE [num |-> 0, den |-> 1]

\* Lines 216-222: alerts are counted only when Dependabot is enabled.
dependabot_alerts(repo) == IF repo.dependabot_enabled THEN repo.alerts ELSE NoAlerts

Max(a, b) == IF a >= b THEN a ELSE b

\* Lines 227-231, in tenths: weighted_sum * 10 is the sum below taken in
\* tenths, the weights being in hundredths.
AlertScore_nofloor(counts) ==
    1000 - SumOver(Severities, [s \in Severities |-> counts[s] * alert_severity_weights[s]])

AlertScore(counts) ==
    Max(0, 1000 - SumOver(Severities,
                   [s \in Severities |-> counts[s] * alert_severity_weights[s]]))

\* Line 238, in tenths.
DependabotScore_always(repo) == AlertScore(dependabot_alerts(repo))

DependabotScore(repo) ==
    IF repo.dependabot_enabled THEN AlertScore(dependabot_alerts(repo)) ELSE 0

\* Lines 234-244.
overall_score(repo, cfg) ==
    LET files == required_files_score(repo, cfg)
        weights == cfg.component_weights
    IN  [num |-> weights.required_files * files.num * 10
                 + weights.security_scanning
                     * (IF repo.security_scanning THEN 100 ELSE 0) * 10 * files.den
                 + weights.dependabot * DependabotScore(repo) * files.den,
         den |-> 100 * files.den]

\* Lines 247-252.
traffic_light(score) ==
    IF score.num >= thresholds.green * score.den THEN "GREEN"
    ELSE IF score.num >= thresholds.amber * score.den THEN "AMBER"
    ELSE "RED"

\* check_single_repo, lines 147-258: None when an exception was raised, the
\* bare metrics for a skipped (archived) repository, the scored metrics
\* otherwise.
check_single_repo(name, repo, cfg) ==
    IF repo.archived THEN [outcome |-> "skipped", repository |-> name]
    ELSE IF RaisesKeyError(repo, cfg) THEN [outcome |-> "None", repository |-> name]
    ELSE [outcome |-> "scored",
          repository |-> name,
          required_files_score |-> required_files_score(repo, cfg),
          dependabot_alerts |-> dependabot_alerts(repo),
          alert_score |-> AlertScore(dependabot_alerts(repo)),
          overall_score |-> overall_score(repo, cfg),
          traffic_light |-> traffic_light(overall_score(repo, cfg))]

\* Three repositories of an organization: one that is scored, one whose
\* README is stored as readme.md, one that is archived.
HealthyRepo ==
    [archived |-> FALSE, root |-> {README_MD, SECURITY_MD}, github_template |-> TRUE,
     security_scanning |-> TRUE, dependabot_enabled |-> TRUE, alerts |-> NoAlerts]

MisnamedRepo ==
    [archived |-> FALSE, root |-> {README_LOWER}, github_template |-> FALSE,
     security_scanning |-> FALSE, dependabot_enabled |-> FALSE, alerts |-> NoAlerts]

ArchivedRepo ==
    [archived |-> TRUE, root |-> {README_MD}, github_template |-> FALSE,
     security_scanning |-> FALSE, dependabot_enabled |-> FALSE, alerts |-> NoAlerts]

\* list(self.org.get_repos()): one repository of any description, or up to
\* MaxOrgRepos of the three above.
OrgRepoLists ==
    {<<repo>> : repo \in RepoDescriptors}
        \cup SeqsUpTo({HealthyRepo, MisnamedRepo, ArchivedRepo}, MaxOrgRepos)

\* The result of the check of the i-th repository.
ResultOf(i) == check_single_repo(i, org_repos[i], health_config)

\* Line 274: a dict is truthy unless empty, None is not.
Truthy(result) == result.outcome # "None"

\* Lines 277-290: pandas raises KeyError for a column that no row has, so
\* the summary needs at least one result with an overall_score.
SummaryRaises(table) == \A i \in 1..Len(table) : table[i].outcome # "scored"

HealthStart ==
    /\ h_queue = <<>>
    /\ h_running = {}
    /\ h_finished = {}
    /\ h_collected = {}
    /\ results = <<>>
    /\ scan_outcome = "none"
    /\ h_pc = "start"

HealthIdle ==
    /\ org_repos = <<>>
    /\ health_config = [required_files |-> RequiredFilesWeighted,
                        component_weights |-> ComponentWeights(4, 3, 3),
                        max_workers |-> 1]
    /\ HealthStart

\* scan_organization, lines 260-270: every repository is submitted to the
\* executor, which queues the checks in submission order.
ScanOrganization ==
    /\ script = "repo_health_check"
    /\ h_pc = "start"
    /\ h_queue' = [i \in 1..Len(org_repos) |-> i]
    /\ h_pc' = "scanning"
    /\ UNCHANGED <<org_repos, health_config, h_running, h_finished, h_collected,
                   results, scan_outcome>>
    /\ UNCHANGED others_h

\* ThreadPoolExecutor(max_workers=max_workers), line 269: a queued check
\* starts only while fewer than max_workers checks are in progress.
WorkerFree_always(running, max_workers) == TRUE

WorkerFree(running, max_workers) == Cardinality(running) < max_workers

\* A free worker thread of the executor takes the next queued check.
StartCheck ==
    /\ script = "repo_health_check"
    /\ h_pc = "scanning"
    /\ h_queue # <<>>
    /\ WorkerFree(h_running, health_config.max_workers)
    /\ h_running' = h_running \cup {Head(h_queue)}
    /\ h_queue' = Tail(h_queue)
    /\ UNCHANGED <<org_repos, health_config, h_finished, h_collected, results,
                   scan_outcome, h_pc>>
    /\ UNCHANGED others_h

\* check_single_repo returns in a worker thread (lines 147-258).
FinishCheck ==
    /\ script = "repo_health_check"
    /\ h_pc = "scanning"
    /\ \E i \in h_running :
         /\ h_running' = h_running \ {i}
         /\ h_finished' = h_finished \cup {i}
    /\ UNCHANGED <<org_repos, health_config, h_queue, h_collected, results,
                   scan_outcome, h_pc>>
    /\ UNCHANGED others_h

\* scan_organization, lines 272-275: as_completed yields a finished check
\* and its result is kept unless it is None.
CollectResult ==
    /\ script = "repo_health_check"
    /\ h_pc = "scanning"
    /\ \E i \in h_finished \ h_collected :
         /\ h_collected' = h_collected \cup {i}
         /\ results' = IF Truthy(ResultOf(i)) THEN Append(results, ResultOf(i))
                       ELSE results
    /\ UNCHANGED <<org_repos, health_config, h_queue, h_running, h_finished,
                   scan_outcome, h_pc>>
    /\ UNCHANGED others_h

\* scan_organization, lines 277-292: the table and the summary are built
\* once every check was collected.
BuildTable ==
    /\ script = "repo_health_check"
    /\ h_pc = "scanning"
    /\ h_collected = 1..Len(org_repos)
    /\ scan_outcome' = IF SummaryRaises(results) THEN "raised" ELSE "returned"
    /\ h_pc' = "done"
    /\ UNCHANGED <<org_repos, health_config, h_queue, h_running, h_finished,
                   h_collected, results>>
    /\ UNCHANGED others_h

(***************************************************************************)
(* team_manage_parent_teams.py                                             *)
(***************************************************************************)

\* The names of the directories under teams/ and of the entries of teams.yml.
ParentTeamNames == {"team1", "team2"}

\* The sub-teams a parent team can have on GitHub.
ChildTeams == 1..MaxChildTeams

\* main, line 130.
teams_to_remove_all(existing_teams, configured) == existing_teams

teams_to_remove(existing_teams, configured) == existing_teams \ configured

\* What is left of the loop of lines 60-65 after one iteration: the except
\* clause of lines 64-65 is inside the loop body.
SubteamsLeft_stop(todo, sub_team, ok) == IF ok THEN todo \ {sub_team} ELSE {}

SubteamsLeft(todo, sub_team, ok) == todo \ {sub_team}

DCall(op, team, sub, ok) == [op |-> op, team |-> team, sub |-> sub, ok |-> ok]

ParentTeamsStart ==
    /\ d_dirs_before = team_dirs
    /\ d_listed = [t \in ParentTeamNames |-> {}]
    /\ d_todo = {}
    /\ d_team = "None"
    /\ d_subs = {}
    /\ d_calls = <<>>
    /\ d_returned = [t \in ParentTeamNames |-> "None"]
    /\ deleted_teams = <<>>
    /\ commit_calls = <<>>
    /\ d_outcome = "none"
    /\ d_pc = "start"

ParentTeamsIdle ==
    /\ team_dirs = {}
    /\ configured_teams = {}
    /\ gh_teams = {}
    /\ gh_subteams = [t \in ParentTeamNames |-> {}]
    /\ ParentTeamsStart

\* main, lines 109-135: the repository root, the organization and the two
\* lists are read; any exception is raised again (lines 156-158).
ParentTeamsMain ==
    /\ script = "team_manage_parent_teams"
    /\ d_pc = "start"
    /\ \E ok \in BOOLEAN :
        IF ~ok
          THEN /\ d_outcome' = "raised"
               /\ d_pc' = "done"
               /\ d_todo' = {}
          ELSE /\ d_todo' = teams_to_remove(team_dirs, configured_teams)
               /\ IF teams_to_remove(team_dirs, configured_teams) = {}
                    THEN d_outcome' = "returned" /\ d_pc' = "done"
                    ELSE d_outcome' = "none" /\ d_pc' = "loop"
    /\ UNCHANGED <<team_dirs, configured_teams, gh_teams, gh_subteams, d_dirs_before,
                   d_listed, d_team, d_subs, d_calls, d_returned, deleted_teams,
                   commit_calls>>
    /\ UNCHANGED others_d

\* delete_github_team, lines 53-59, called at line 143 for the next team of
\* the loop of line 139: the team is looked up and its sub-teams are listed.
\* A failure of either is caught at lines 71-73.
DeleteGithubTeam ==
    /\ script = "team_manage_parent_teams"
    /\ d_pc = "loop"
    /\ \E team_name \in d_todo, lookup_ok \in BOOLEAN, list_ok \in BOOLEAN :
        /\ lookup_ok => team_name \in gh_teams
        /\ ~lookup_ok => list_ok
        /\ d_todo' = d_todo \ {team_name}
        /\ d_team' = team_name
        /\ IF ~lookup_ok
             THEN /\ d_calls' = Append(d_calls,
                                   DCall("get_team_by_slug", team_name, 0, FALSE))
                  /\ d_returned' = [d_returned EXCEPT ![team_name] = "False"]
                  /\ d_pc' = "loop"
                  /\ UNCHANGED <<d_subs, d_listed>>
             ELSE IF ~list_ok
             THEN /\ d_calls' = d_calls
                                   \o <<DCall("get_team_by_slug", team_name, 0, TRUE),
                                        DCall("get_teams", team_name, 0, FALSE)>>
                  /\ d_returned' = [d_returned EXCEPT ![team_name] = "False"]
                  /\ d_pc' = "loop"
                  /\ UNCHANGED <<d_subs, d_listed>>
             ELSE /\ d_calls' = d_calls
                                   \o <<DCall("get_team_by_slug", team_name, 0, TRUE),
                                        DCall("get_teams", team_name, 0, TRUE)>>
                  /\ d_subs' = gh_subteams[team_name]
                  /\ d_listed' = [d_listed EXCEPT ![team_name] = gh_subteams[team_name]]
                  /\ d_pc' = "subteams"
                  /\ UNCHANGED d_returned
    /\ UNCHANGED <<team_dirs, configured_teams, gh_teams, gh_subteams, d_dirs_before,
                   deleted_teams, commit_calls, d_outcome>>
    /\ UNCHANGED others_d

\* One iteration of the loop of lines 60-65.
DeleteSubTeam ==
    /\ script = "team_manage_parent_teams"
    /\ d_pc = "subteams"
    /\ \E sub_team \in d_subs, ok \in BOOLEAN :
        /\ d_calls' = Append(d_calls, DCall("delete_subteam", d_team, sub_team, ok))
        /\ gh_subteams' = IF ok
                            THEN [gh_subteams EXCEPT ![d_team] = @ \ {sub_team}]
                            ELSE gh_subteams
        /\ d_subs' = SubteamsLeft(d_subs, sub_team, ok)
    /\ UNCHANGED <<team_dirs, configured_teams, gh_teams, d_dirs_before, d_listed,
                   d_todo, d_team, d_returned, deleted_teams, commit_calls,
                   d_outcome, d_pc>>
    /\ UNCHANGED others_d

\* Lines 67-73: the parent team is deleted and delete_github_team returns.
DeleteParentTeam ==
    /\ script = "team_manage_parent_teams"
    /\ d_pc = "subteams"
    /\ d_subs = {}
    /\ \E ok \in BOOLEAN :
        /\ d_calls' = Append(d_calls, DCall("delete_team", d_team, 0, ok))
        /\ IF ok
             THEN /\ gh_teams' = gh_teams \ {d_team}
                  /\ gh_subteams' = [gh_subteams EXCEPT ![d_team] = {}]
                  /\ d_returned' = [d_returned EXCEPT ![d_team] = "True"]
                  /\ d_pc' = "directory"
             ELSE /\ d_returned' = [d_returned EXCEPT ![d_team] = "False"]
                  /\ d_pc' = "loop"
                  /\ UNCHANGED <<gh_teams, gh_subteams>>
    /\ UNCHANGED <<team_dirs, configured_teams, d_dirs_before, d_listed, d_todo,
                   d_team, d_subs, deleted_teams, commit_calls, d_outcome>>
    /\ UNCHANGED others_d

\* delete_team_directory, lines 39-50, called at line 145 after
\* delete_github_team returned True.
DeleteTeamDirectory ==
    /\ script = "team_manage_parent_teams"
    /\ d_pc = "directory"
    /\ \E ok \in BOOLEAN :
        IF d_team \in team_dirs
          THEN /\ d_calls' = Append(d_calls, DCall("rmtree", d_team, 0, ok))
               /\ team_dirs' = IF ok THEN team_dirs \ {d_team} ELSE team_dirs
               /\ deleted_teams' = IF ok THEN Append(deleted_teams, d_team)
                                   ELSE deleted_teams
          ELSE UNCHANGED <<d_calls, team_dirs, deleted_teams>>
    /\ d_pc' = "loop"
    /\ UNCHANGED <<configured_teams, gh_teams, gh_subteams, d_dirs_before, d_listed,
                   d_todo, d_team, d_subs, d_returned, commit_calls, d_outcome>>
    /\ UNCHANGED others_d

\* Lines 148-158, after the loop: commit_changes is called when a team was
\* removed; an exception of it is raised again.
CommitChanges ==
    /\ script = "team_manage_parent_teams"
    /\ d_pc = "loop"
    /\ d_todo = {}
    /\ IF deleted_teams # <<>>
         THEN /\ commit_calls' = Append(commit_calls, deleted_teams)
              /\ \E ok \in BOOLEAN : d_outcome' = IF ok THEN "returned" ELSE "raised"
         ELSE /\ commit_calls' = commit_calls
              /\ d_outcome' = "returned"
    /\ d_pc' = "done"
    /\ UNCHANGED <<team_dirs, configured_teams, gh_teams, gh_subteams, d_dirs_before,
                   d_listed, d_todo, d_team, d_subs, d_calls, d_returned,
                   deleted_teams>>
    /\ UNCHANGED others_d

(***************************************************************************)
(* main of team_manage_membership.py, team_manage_resource.py and          *)
(* team_manage_subteams.py                                                 *)
(***************************************************************************)

MainScripts == {"team_manage_membership", "team_manage_resource", "team_manage_subteams"}

\* What a teams.yml file holds: a valid configuration, text that is not
\* YAML, YAML without a 'teams' mapping, or a 'teams' mapping without
\* team_name.
ConfigKinds == {"valid", "malformed_yaml", "no_teams_mapping", "no_team_name"}

TeamFileLists == SeqsUpTo(ConfigKinds, MaxTeamFiles)

\* load_team_config (team_manage_membership.py lines 45-56, the same in the
\* other two scripts): the exception it raises, or "ok".
load_team_config(kind) ==
    IF kind \in {"malformed_yaml", "no_teams_mapping"} THEN "ValueError" ELSE "ok"

\* sync_team_memberships, sync_team_repositories (team_manage_resource.py
\* lines 209-212) and sync_subteams read team_data["team_name"] outside
\* their try blocks.
sync_team(kind) == IF kind = "no_team_name" THEN "KeyError" ELSE "ok"

\* The body of the try of the loop of main (lines 188-190).
ProcessOutcome(kind) ==
    IF load_team_config(kind) # "ok" THEN load_team_config(kind) ELSE sync_team(kind)

TeamMainStart ==
    /\ c_idx = 1
    /\ c_errors = <<>>
    /\ main_exit = -1
    /\ c_pc = "start"

TeamMainIdle ==
    /\ env_set = FALSE
    /\ org_ok = FALSE
    /\ team_files = <<>>
    /\ TeamMainStart

\* main up to its loop (team_manage_membership.py lines 142-184): 1 without
\* the environment variables or when the organization cannot be read, 0 when
\* there is no team file.
TeamMain ==
    /\ script \in MainScripts
    /\ c_pc = "start"
    /\ IF ~env_set \/ ~org_ok
         THEN main_exit' = 1 /\ c_pc' = "exited"
         ELSE IF team_files = <<>>
         THEN main_exit' = 0 /\ c_pc' = "exited"
         ELSE main_exit' = main_exit /\ c_pc' = "loop"
    /\ UNCHANGED <<env_set, org_ok, team_files, c_idx, c_errors>>
    /\ UNCHANGED others_c

\* One iteration of the loop of main (lines 186-191): an exception of
\* load_team_config or of the sync function is logged and the loop goes on.
ProcessTeamFile ==
    /\ script \in MainScripts
    /\ c_pc = "loop"
    /\ c_idx <= Len(team_files)
    /\ c_errors' = IF ProcessOutcome(team_files[c_idx]) # "ok"
                     THEN Append(c_errors, [file |-> c_idx,
                                            error |-> ProcessOutcome(team_files[c_idx])])
                     ELSE c_errors
    /\ c_idx' = c_idx + 1
    /\ UNCHANGED <<env_set, org_ok, team_files, main_exit, c_pc>>
    /\ UNCHANGED others_c

\* Line 193, after the loop.
ReturnMain ==
    /\ script \in MainScripts
    /\ c_pc = "loop"
    /\ c_idx > Len(team_files)
    /\ main_exit' = 0
    /\ c_pc' = "exited"
    /\ UNCHANGED <<env_set, org_ok, team_files, c_idx, c_errors>>
    /\ UNCHANGED others_c

(***************************************************************************)
(* process_team_configuration.py                                           *)
(***************************************************************************)

\* Python values a team_name can be: parse_issue_body (lines 38-39) gives a
\* string, or None when the issue has no "Team Name:" line.
Str(text) == [type |-> "str", text |-> text]

NoneValue == [type |-> "NoneType", text |-> "None"]

TeamNameValues == {Str("Team-A"), Str("Team-B"), Str("null"), NoneValue}

Projects == {"ExistingProject", "NewProject"}

TeamConfigs == [team_name : TeamNameValues, project : Projects]

\* The tag PyYAML's implicit resolver gives a plain scalar.
resolve_plain(text) == IF text \in {"null", "Null", "NULL", "~", ""} THEN "null" ELSE "str"

\* yaml.dump of a scalar (line 79): None is written as the plain scalar null;
\* a string is written plain unless it would then be read back as something
\* else, in which case it is quoted.
yaml_dump_scalar(value) ==
    IF value.type = "NoneType" THEN [style |-> "plain", text |-> "null"]
    ELSE IF resolve_plain(value.text) # "str"
      THEN [style |-> "quoted", text |-> value.text]
    ELSE [style |-> "plain", text |-> value.text]

\* yaml.safe_load of a scalar (line 64).
yaml_load_scalar(scalar) ==
    IF scalar.style = "plain" /\ resolve_plain(scalar.text) = "null" THEN NoneValue
    ELSE Str(scalar.text)

\* yaml.dump and yaml.safe_load of the document: a mapping that may have a
\* 'teams' list of team mappings.
yaml_dump(config) ==
    [has_teams |-> config.has_teams,
     teams |-> [i \in 1..Len(config.teams) |->
                   [team_name |-> yaml_dump_scalar(config.teams[i].team_name),
                    project |-> config.teams[i].project]]]

yaml_load(file) ==
    [has_teams |-> file.has_teams,
     teams |-> [i \in 1..Len(file.teams) |->
                   [team_name |-> yaml_load_scalar(file.teams[i].team_name),
                    project |-> file.teams[i].project]]]

\* Line 70: whether a team of the list has the given team_name.
HasTeam_never(teams, team_name) == FALSE

HasTeam(teams, team_name) == \E i \in 1..Len(teams) : teams[i].team_name = team_name

UniqueNames(teams) ==
    \A i, j \in 1..Len(teams) : teams[i].team_name = teams[j].team_name => i = j

\* The files update_teams_config starts from: a mapping without 'teams', or
\* one whose teams have different names.
InitialConfigs ==
    {[has_teams |-> FALSE, teams |-> <<>>]}
        \cup {[has_teams |-> TRUE, teams |-> t] :
                 t \in {l \in SeqsUpTo(TeamConfigs, MaxInitialTeams) : UniqueNames(l)}}

UpdateIdle ==
    /\ teams_yml = [has_teams |-> FALSE, teams |-> <<>>]
    /\ u_initial = [has_teams |-> FALSE, teams |-> <<>>]
    /\ u_before = [has_teams |-> FALSE, teams |-> <<>>]
    /\ u_new = [team_name |-> NoneValue, project |-> "NewProject"]
    /\ u_result = "None"
    /\ u_calls = 0

\* update_teams_config, lines 59-82.
UpdateTeamsConfig ==
    /\ script = "process_team_configuration"
    /\ u_calls < MaxUpdates
    /\ \E new_team_config \in TeamConfigs :
        LET config == yaml_load(teams_yml)
            teams == IF config.has_teams THEN config.teams ELSE <<>>
        IN  /\ u_new' = new_team_config
            /\ IF HasTeam(teams, new_team_config.team_name)
                 THEN /\ u_result' = "False"
                      /\ teams_yml' = teams_yml
                 ELSE /\ u_result' = "True"
                      /\ teams_yml' = yaml_dump([has_teams |-> TRUE,
                                                 teams |-> Append(teams, new_team_config)])
    /\ u_before' = teams_yml
    /\ u_calls' = u_calls + 1
    /\ UNCHANGED u_initial
    /\ UNCHANGED others_u

(***************************************************************************)
(* repo_configuration_management.py                                        *)
(***************************************************************************)

StatusContexts == {"build", "lint", "test"}

\* No required_status_checks entry in the changes.
NoChanges == [changed |-> FALSE, add |-> {}, remove |-> {}]

\* RepositoryConfigManager._compare_branch_protection, lines 105-114.
compare_branch_protection(current_contexts, desired) ==
    IF current_contexts # desired
      THEN [changed |-> TRUE, add |-> desired \ current_contexts,
            remove |-> current_contexts \ desired]
      ELSE NoChanges

\* apply_repository_changes, lines 161-163: set(current) | set(add) -
\* set(remove), where - binds tighter than |.
new_contexts(current_contexts, add, remove) == current_contexts \cup (add \ remove)

RepoConfigIdle ==
    /\ branch_contexts = {}
    /\ desired_contexts = {}
    /\ g_changes = NoChanges
    /\ g_applied = FALSE
    /\ g_second = NoChanges
    /\ g_validate_ok = TRUE
    /\ g_pc = "validate"

\* validate_repository_config, lines 19-93, for a configuration with
\* branch_protection.required_status_checks: an exception reading the
\* protection is printed (lines 71-73) and no change is reported.  main
\* (lines 210-214) applies the changes when there are any.
ValidateRepositoryConfig ==
    /\ script = "repo_configuration_management"
    /\ g_pc \in {"validate", "revalidate"}
    /\ \E ok \in BOOLEAN :
        LET changes == IF ok
                         THEN compare_branch_protection(branch_contexts, desired_contexts)
                         ELSE NoChanges
        IN  /\ g_validate_ok' = ok
            /\ IF g_pc = "validate"
                 THEN /\ g_changes' = changes
                      /\ g_pc' = IF changes.changed THEN "apply" ELSE "done"
                      /\ UNCHANGED g_second
                 ELSE /\ g_second' = changes
                      /\ g_pc' = "done"
                      /\ UNCHANGED g_changes
    /\ UNCHANGED <<branch_contexts, desired_contexts, g_applied>>
    /\ UNCHANGED others_g

\* apply_repository_changes, lines 153-164; an exception of a request is
\* printed (lines 194-195).
ApplyRepositoryChanges ==
    /\ script = "repo_configuration_management"
    /\ g_pc = "apply"
    /\ \E ok \in BOOLEAN :
        /\ g_applied' = ok
        /\ branch_contexts' = IF ok
                                THEN new_contexts(branch_contexts, g_changes.add,
                                                  g_changes.remove)
                                ELSE branch_contexts
    /\ g_pc' = "revalidate"
    /\ UNCHANGED <<desired_contexts, g_changes, g_second, g_validate_ok>>
    /\ UNCHANGED others_g

(***************************************************************************)
(* team_setup_teams.py writing the file team_manage_resource.py reads      *)
(***************************************************************************)

\* dict.get(key, default).
dict_get(mapping, key, default) ==
    IF key \in DOMAIN mapping THEN mapping[key] ELSE default

\* The entries of the root teams.yml: team_manage_parent_teams and
\* team_setup_teams read team_name, repository_permissions and
\* default_repositories of each.
RootTeams ==
    [team_name : {"team1"}, repository_permissions : PermissionInputs,
     default_repositories : RepoLists]

\* create_team_directory, lines 37-48: the 'teams' mapping written for the
\* parent team, with the keys that matter to sync_team_repositories.
team_yaml(team_name, team_config) ==
    [team_name |-> team_name,
     repository_permission |-> team_config.repository_permissions,
     repositories |-> dict_get(team_config, "default_repositories", <<>>)]

\* A per-team file that was there before, written by hand.
ExistingTeamFiles ==
    [team_name : {"team1"}, repository_permissions : {ADMIN}, repositories : {<<"repo1">>}]

TeamSetupIdle ==
    /\ root_team = [team_name |-> "team1", repository_permissions |-> READ,
                    default_repositories |-> <<>>]
    /\ team_file_exists = FALSE
    /\ team_file = [team_name |-> "team1"]
    /\ t_written = FALSE
    /\ t_parent_permissions = READ
    /\ t_granted = [r \in RepoNames |-> NoPermission]
    /\ t_pc = "setup"

\* create_team_directory, lines 20-68: an existing file is left alone.
CreateTeamDirectory ==
    /\ script = "team_setup_teams"
    /\ t_pc = "setup"
    /\ IF team_file_exists
         THEN UNCHANGED <<team_file, t_written>>
         ELSE /\ team_file' = team_yaml(root_team.team_name, root_team)
              /\ t_written' = TRUE
    /\ team_file_exists' = TRUE
    /\ t_pc' = "sync"
    /\ UNCHANGED <<root_team, t_parent_permissions, t_granted>>
    /\ UNCHANGED others_t

\* sync_team_repositories, lines 209-221, with sync_team_repos granting every
\* listed repository at the mapped permission (lines 96-102, 147-160); a
\* parent team that cannot be found is skipped (lines 223-225).
SyncTeamRepositories ==
    /\ script = "team_setup_teams"
    /\ t_pc = "sync"
    /\ \E ok \in BOOLEAN :
        LET parent_repos_list == dict_get(team_file, "repositories", <<>>)
            parent_permissions == dict_get(team_file, "repository_permissions", READ)
        IN  IF ok
              THEN /\ t_parent_permissions' = parent_permissions
                   /\ t_granted' = [r \in RepoNames |->
                         IF r \in Range(parent_repos_list)
                           THEN ApiPermission(parent_permissions)
                           ELSE NoPermission]
              ELSE UNCHANGED <<t_parent_permissions, t_granted>>
    /\ t_pc' = "done"
    /\ UNCHANGED <<root_team, team_file_exists, team_file, t_written>>
    /\ UNCHANGED others_t

(***************************************************************************)
(* Properties of team_manage_membership.py                                 *)
(***************************************************************************)
CallsOf(calls, op, arg) ==
    {i \in 1..Len(calls) : calls[i].op = op /\ calls[i].arg = arg}

CallsOp(calls, op) == {i \in 1..Len(calls) : calls[i].op = op}

MemberUniverse == Logins \cup DesiredOf(members_list) \cup current_members

\* C1: when a run of sync_team_members has returned and every API call of it
\* succeeded, with D the normalized desired set and A the fetched roster, the
\* run made exactly one add_membership call for each username of D \ A and
\* none for any other, exactly one remove_membership call for each username
\* of A \ D and none for any other; so none at all when D = A.
C1_ExactDiffCalls ==
    (m_pc = "done" /\ AllOk(m_calls)) =>
        LET D == DesiredOf(members_list)
            A == current_members
        IN /\ \A u \in MemberUniverse :
                /\ Cardinality(CallsOf(m_calls, "add_membership", u))
                      = IF u \in D \ A THEN 1 ELSE 0
                /\ Cardinality(CallsOf(m_calls, "remove_membership", u))
                      = IF u \in A \ D THEN 1 ELSE 0
           /\ Cardinality(CallsOp(m_calls, "add_membership")) = Cardinality(D \ A)
           /\ Cardinality(CallsOp(m_calls, "remove_membership")) = Cardinality(A \ D)

\* A successful run that both added and removed somebody.
C1_Witness ==
    /\ m_pc = "done"
    /\ AllOk(m_calls)
    /\ CallsOp(m_calls, "add_membership") # {}
    /\ CallsOp(m_calls, "remove_membership") # {}
    /\ \E i \in 1..Len(members_list) :
          normalize_username(members_list[i]) # members_list[i]

\* C2: a run of sync_team_members whose members list is None or empty (the
\* empty list is what sync_team_memberships passes when the "members" key is
\* absent) and whose roster fetch succeeded made one remove_membership call
\* for every member of the fetched roster and no add_membership call.
C2_EmptyListRemovesAll ==
    (m_pc = "done" /\ m_fetch_ok
        /\ (members_none \/ members_list = <<>> \/ members_from = "key_absent")) =>
        /\ CallsOp(m_calls, "add_membership") = {}
        /\ \A u \in current_members :
              Cardinality(CallsOf(m_calls, "remove_membership", u)) = 1
        /\ Cardinality(CallsOp(m_calls, "remove_membership"))
              = Cardinality(current_members)

\* The "members" key was absent and two members were removed from the team.
C2_Witness ==
    /\ m_pc = "done"
    /\ m_fetch_ok
    /\ members_from = "key_absent"
    /\ Cardinality(current_members) >= 2
    /\ Cardinality(CallsOp(m_calls, "remove_membership")) >= 2

\* C6: when gh.get_user raised GithubException for a desired member that was
\* not yet in the team, sync_team_members ends by raising to its caller.
C6_GetUserErrorIsRaised ==
    (m_pc = "done"
        /\ \E i \in 1..Len(m_calls) :
              /\ m_calls[i].op = "get_user"
              /\ ~m_calls[i].ok
              /\ m_calls[i].arg \in desired_members \ current_members) =>
        m_outcome = "raised"

\* C3: a run that follows a first run in which every call succeeded, with the
\* same configuration, no outside change and a successful read of the actual
\* state, makes no add_membership and no remove_membership call
\* (sync_team_members), and sends no create_team and no team.delete call
\* (sync_subteams).
C3_SecondRunIsQuiet ==
    /\ (m_run >= 2 /\ m_first.allok /\ ~m_outside
          /\ (m_pc \in {"add", "remove", "remove_all", "done"} => m_fetch_ok)) =>
            /\ CallsOp(m_calls, "add_membership") = {}
            /\ CallsOp(m_calls, "remove_membership") = {}
    /\ (s_run >= 2 /\ s_first.allok /\ ~s_outside
          /\ (s_pc # "idle" => s_fetch_ok)) =>
            \A i \in 1..Len(s_calls) : ~s_calls[i].issued

\* A second run finished quietly although the team had members and the
\* configuration asks for members.
C3_Witness ==
    /\ m_run = 2
    /\ m_pc = "done"
    /\ m_first.allok
    /\ ~m_outside
    /\ m_fetch_ok
    /\ m_first.mutating >= 2
    /\ Cardinality(desired_members) >= 2
    /\ current_members = desired_members

\* The same for the sub-teams: a quiet second run with two desired sub-teams.
C3_WitnessSubteams ==
    /\ s_run = 2
    /\ s_pc = "done"
    /\ s_first.allok
    /\ ~s_outside
    /\ s_fetch_ok
    /\ s_first.mutating >= 2
    /\ Cardinality(desired_sub_teams) >= 2
    /\ existing_subteams = desired_sub_teams

Occurrences(list, x) == Cardinality({i \in 1..Len(list) : list[i] = x})

C5_WitnessSubteams ==
    /\ s_pc = "done"
    /\ \E i, j, k \in 1..Len(s_calls) :
          /\ i < j /\ j < k
          /\ s_calls[i].op = "create_subteam" /\ ~s_calls[i].ok
          /\ s_calls[j].op = "create_subteam" /\ s_calls[j].ok
          /\ s_calls[k].op = "delete_subteam" /\ s_calls[k].ok

ArgsOf(calls, op) ==
    LET sel == SelectSeq(calls, LAMBDA c : c.op = op)
    IN [i \in 1..Len(sel) |-> sel[i].arg]

\* C9: a finished run of sync_subteams that could list the existing
\* sub-teams has called create_subteam for exactly the desired entries whose
\* name was not among the existing ones (in file order), delete_subteam once
\* for exactly the existing names that are not desired, every create_subteam
\* before any delete_subteam, and delete_subteam for no desired name.
C9_SubteamDiff ==
    (s_pc = "done" /\ s_fetch_ok) =>
        /\ ArgsOf(s_calls, "create_subteam")
              = SelectSeq(default_sub_teams, LAMBDA n : n \notin existing_subteams)
        /\ \A n \in SubNames :
              Cardinality(CallsOf(s_calls, "delete_subteam", n))
                 = IF n \in existing_subteams /\ n \notin Range(default_sub_teams)
                     THEN 1 ELSE 0
        /\ \A i, j \in 1..Len(s_calls) :
              (s_calls[i].op = "create_subteam" /\ s_calls[j].op = "delete_subteam")
                 => i < j
        /\ \A i \in 1..Len(s_calls) :
              s_calls[i].op = "delete_subteam"
                 => s_calls[i].arg \notin Range(default_sub_teams)

\* One desired sub-team existed already, one was created, one was deleted.
C9_Witness ==
    /\ s_pc = "done"
    /\ s_fetch_ok
    /\ CallsOp(s_calls, "create_subteam") # {}
    /\ CallsOp(s_calls, "delete_subteam") # {}
    /\ desired_sub_teams \cap existing_subteams # {}

(***************************************************************************)
(* Properties of team_manage_resource.py                                   *)
(***************************************************************************)
RepoCallsOf(op, repo) ==
    {i \in 1..Len(r_calls) : r_calls[i].op = op /\ r_calls[i].repo = repo}

IsClaimedMapping(configs) ==
    /\ Len(configs) = 2
    /\ Range(configs) = {BranchEntry(MAIN, "A", {}),
                         BranchEntry(RELEASE_STAR, "B", {RELEASE_FREEZE})}

\* C10: with the mapping {"main": A, "release/*": B excluding
\* "release/freeze"}, both _get_branch_config and the matching loop of
\* validate_pr_requirements resolve "main" to A, "release/1.0" to B and
\* "release/freeze" to no configuration.
C10_BranchResolutionExample ==
    (/\ b_pc = "resolved"
     /\ b_evaluator \in {"pr_review_manager", "validate_pr_requirements"}
     /\ IsClaimedMapping(branch_configs)) =>
        /\ target_branch = MAIN => b_result = "A"
        /\ target_branch = RELEASE_1_0 => b_result = "B"
        /\ target_branch = RELEASE_FREEZE => b_result = NoConfig

\* _get_branch_config found no configuration for "release/freeze".
C10_Witness ==
    /\ b_pc = "resolved"
    /\ b_evaluator = "pr_review_manager"
    /\ IsClaimedMapping(branch_configs)
    /\ target_branch = RELEASE_FREEZE
    /\ b_result = NoConfig

\* validate_pr_requirements selected B for "release/1.0".
C10_WitnessValidate ==
    /\ b_pc = "resolved"
    /\ b_evaluator = "validate_pr_requirements"
    /\ IsClaimedMapping(branch_configs)
    /\ target_branch = RELEASE_1_0
    /\ b_result = "B"

\* C11: with the mapping {"main": A, "release/*": B excluding
\* "release/freeze"}, assign_reviewers_and_assignees resolves "main" to A,
\* "release/1.0" to B (and returns True) and "release/freeze" to no
\* configuration (and returns False).
C11_AssignResolutionExample ==
    (/\ b_pc = "resolved"
     /\ b_evaluator = "validate_pr_assign_reviewers"
     /\ IsClaimedMapping(branch_configs)) =>
        /\ target_branch = MAIN => b_result = "A"
        /\ target_branch = RELEASE_1_0 => b_result = "B"
        /\ target_branch = RELEASE_FREEZE => b_result = NoConfig

\* C12: a target branch that is itself a key of the mapping resolves to that
\* key's configuration, in _get_branch_config and in validate_pr_requirements,
\* wherever a matching wildcard key stands in the mapping.
C12_ExactMatchWins ==
    (/\ b_pc = "resolved"
     /\ b_evaluator \in {"pr_review_manager", "validate_pr_requirements"}) =>
        \A i \in 1..Len(branch_configs) :
            branch_configs[i].pattern = target_branch =>
                b_result = branch_configs[i].config

(***************************************************************************)
(* Properties of the PR review evaluators                                  *)
(***************************************************************************)
\* The distinct users with an APPROVED review on the pull request.
Approvers == {pr_reviews[i].user : i \in {j \in 1..Len(pr_reviews) :
                                             pr_reviews[j].state = "APPROVED"}}

\* The approving users whose team list could be read.
CountedApprovers == {u \in Approvers : teams_lookup_ok[u]}

\* The review policy over a set of approving users: enough of them, and one
\* of them in every required team.
PolicyMet(approving) ==
    /\ Cardinality(approving) >= required_approvals
    /\ \A t \in required_teams : \E u \in approving : u \in org_team_members[t]

CheckReturned == script = "pr_review_manager" /\ p_pc \in {"status", "returned"}
                 /\ b_result # NoConfig

\* C13 as claimed: _check_required_reviews returns True exactly when the
\* reviews could be read, the distinct users with an APPROVED review number at
\* least required_approvals and every required team has one of them among its
\* members.
C13_TrueIffApprovalsAndTeams ==
    CheckReturned => (meets_requirements <=> (reviews_fetch_ok /\ PolicyMet(Approvers)))

\* C13 as amended: the approving users that count are those whose team list
\* could be read; _check_required_reviews returns True exactly when the
\* reviews could be read, those users number at least required_approvals and
\* every required team has one of them among its members.
C13_TrueIffCountedApprovals ==
    CheckReturned =>
        (meets_requirements <=> (reviews_fetch_ok /\ PolicyMet(CountedApprovers)))

\* Two users approved, each in one of the two required teams, and the check
\* returned True.
C13_Witness ==
    /\ CheckReturned
    /\ meets_requirements
    /\ required_approvals = 2
    /\ required_teams = Teams
    /\ Cardinality(CountedApprovers) = 2
    /\ \E t \in Teams : Cardinality(org_team_members[t]) = 1

\* The create_status requests issued so far.
StatusCalls == SelectSeq(p_calls, LAMBDA c : c.op = "create_status")

\* C15: for a PR whose target branch resolves to a configuration,
\* process_pull_request issues exactly one create_status on the head commit,
\* under context 'pr-review-requirements', with state 'success' if
\* _check_required_reviews returned True and 'pending' otherwise; no other
\* state is ever written under that context.
C15_OneStatusPendingOrSuccess ==
    /\ (script = "pr_review_manager" /\ p_pc = "returned" /\ b_result # NoConfig) =>
          /\ Len(StatusCalls) = 1
          /\ StatusCalls[1].arg.context = STATUS_CONTEXT
          /\ StatusCalls[1].arg.state = "success" <=> meets_requirements
          /\ StatusCalls[1].arg.state = "pending" <=> ~meets_requirements
          /\ StatusCalls[1].ok => commit_statuses = <<StatusCalls[1].arg>>
          /\ ~StatusCalls[1].ok => commit_statuses = <<>>
    /\ \A i \in 1..Len(commit_statuses) :
          commit_statuses[i].context = STATUS_CONTEXT =>
              commit_statuses[i].state \in {"pending", "success"}
    /\ Len(commit_statuses) <= 1

\* A PR that does not meet its requirements got the 'pending' status.
C15_Witness ==
    /\ script = "pr_review_manager"
    /\ p_pc = "returned"
    /\ b_result = "A"
    /\ ~meets_requirements
    /\ required_approvals = 1
    /\ commit_statuses = <<[state |-> "pending", context |-> STATUS_CONTEXT]>>

\* C14: validate_pr_requirements returns True only if the approvals reach
\* required_approvals and every required team of the matched configuration
\* has a member who approved the pull request.
C14_ValidOnlyIfEachTeamApproved ==
    (script = "validate_pr_requirements" /\ v_result = "True") =>
        /\ Cardinality(Approvers) >= required_approvals
        /\ \A t \in required_teams : \E u \in org_team_members[t] : u \in Approvers

\* C16: given a GITHUB_OUTPUT file that can be appended to,
\* validate_pr_requirements.main exits with 0 exactly when
\* validate_pr_requirements returned True and with 1 in every other case
\* (it returned False, or an exception was raised); whenever validation
\* returned a result, the matching line 'status=true' or 'status=false' was
\* appended to the file before the exit.
C16_ExitCodeAndStatusLine ==
    (script = "validate_pr_requirements" /\ v_pc = "exited" /\ github_output_set) =>
        /\ exit_code = 0 <=> v_result = "True"
        /\ exit_code = 1 <=> v_result # "True"
        /\ v_result = "True" => github_output = <<"status=true">>
        /\ v_result = "False" => github_output = <<"status=false">>
        /\ v_result = "None" => github_output = <<>>

\* Validation returned False for want of approvals: the process wrote
\* 'status=false' and exited with 1.
C16_Witness ==
    /\ script = "validate_pr_requirements"
    /\ v_pc = "exited"
    /\ github_output_set
    /\ b_result = "A"
    /\ reviews_fetch_ok
    /\ required_approvals = 2
    /\ v_result = "False"
    /\ exit_code = 1
    /\ github_output = <<"status=false">>

\* The PR number could not be determined: exit code 1 and nothing written.
C16_WitnessException ==
    /\ script = "validate_pr_requirements"
    /\ v_pc = "exited"
    /\ github_output_set
    /\ v_result = "None"
    /\ exit_code = 1
    /\ b_pc = "idle"

(***************************************************************************)
(* Properties of repo_health_check.py                                      *)
(***************************************************************************)
\* The scored results collected so far, with the repository each is about.
ScoredResults == {i \in 1..Len(results) : results[i].outcome = "scored"}

RepoOf(i) == org_repos[results[i].repository]

\* A required file is present when the root holds it under its configured
\* name, or, for the PR template, when .github holds it.
Present(repo, file) ==
    file \in repo.root \/ (file = PR_TEMPLATE /\ repo.github_template)

\* The weight a file adds to a sum over the required files.
RequiredWeight(file) ==
    IF health_config.required_files[file].required
      THEN health_config.required_files[file].weight ELSE 0

TotalRequiredWeight ==
    RequiredWeight(README_MD) + RequiredWeight(SECURITY_MD)
        + RequiredWeight(PR_TEMPLATE) + RequiredWeight(GOVERNANCE_MD)

PresentWeight(repo) ==
    (IF Present(repo, README_MD) THEN RequiredWeight(README_MD) ELSE 0)
        + (IF Present(repo, SECURITY_MD) THEN RequiredWeight(SECURITY_MD) ELSE 0)
        + (IF Present(repo, PR_TEMPLATE) THEN RequiredWeight(PR_TEMPLATE) ELSE 0)
        + (IF Present(repo, GOVERNANCE_MD) THEN RequiredWeight(GOVERNANCE_MD) ELSE 0)

\* S, in hundredths: the alerts counted for the repository, weighted.
WeightedAlerts(counts) ==
    counts["critical"] * 100 + counts["high"] * 75
        + counts["medium"] * 50 + counts["low"] * 25

\* C17: required_files_score = 100 x present required weight / total
\* required weight; overall_score = the sum of component weight x component
\* score (scanning 100 or 0, Dependabot alert_score or 0 when it is off);
\* traffic_light GREEN from thresholds.green, AMBER from thresholds.amber,
\* RED below.  Total required weight 5.0 with 4.0 present, scanning off,
\* Dependabot off and weights {0.4, 0.3, 0.3} give 80.0, 32.0 and RED.
C17_ScoreFormula ==
    \A i \in ScoredResults :
        LET m == results[i]
            repo == RepoOf(i)
            w == health_config.component_weights
            files == m.required_files_score
            total == m.overall_score
        IN  /\ TotalRequiredWeight > 0 =>
                files.num * TotalRequiredWeight = 100 * PresentWeight(repo) * files.den
            \* 100 x overall_score, cleared of the denominator of files
            /\ total.num * 100 * files.den =
                  total.den * ( w.required_files * 10 * files.num
                      + w.security_scanning * 10
                          * (IF repo.security_scanning THEN 100 ELSE 0) * files.den
                      + w.dependabot
                          * (IF repo.dependabot_enabled THEN m.alert_score ELSE 0)
                          * files.den )
            /\ m.traffic_light = "GREEN" <=> total.num >= 80 * total.den
            /\ m.traffic_light = "AMBER" <=>
                  (total.num < 80 * total.den /\ total.num >= 60 * total.den)
            /\ m.traffic_light = "RED" <=> total.num < 60 * total.den
            /\ ( /\ TotalRequiredWeight = 10
                 /\ PresentWeight(repo) = 8
                 /\ ~repo.security_scanning
                 /\ ~repo.dependabot_enabled
                 /\ w = ComponentWeights(4, 3, 3) ) =>
                   /\ files.num = 80 * files.den
                   /\ total.num = 32 * total.den
                   /\ m.traffic_light = "RED"

\* The example of the claim was scored: 4.0 of 5.0 present, scanning and
\* Dependabot off, weights {0.4, 0.3, 0.3}.
C17_Witness ==
    \E i \in ScoredResults :
        /\ TotalRequiredWeight = 10
        /\ PresentWeight(RepoOf(i)) = 8
        /\ ~RepoOf(i).security_scanning
        /\ ~RepoOf(i).dependabot_enabled
        /\ health_config.component_weights = ComponentWeights(4, 3, 3)
        /\ results[i].traffic_light = "RED"

\* C18 as claimed: alert_score = max(0, 100 - S), S the sum over the
\* severities of number of alerts x weight of the severity.
C18_AlertScoreHundredMinusSum ==
    \A i \in ScoredResults :
        10 * results[i].alert_score =
            Max(0, 10000 - WeightedAlerts(results[i].dependabot_alerts))

\* C18 as amended: alert_score = max(0, 100 - 10 x S).
C18_AlertScoreHundredMinusTenSums ==
    \A i \in ScoredResults :
        /\ 10 * results[i].alert_score =
              Max(0, 10000 - 10 * WeightedAlerts(results[i].dependabot_alerts))
        /\ RepoOf(i).dependabot_enabled =>
              results[i].dependabot_alerts = RepoOf(i).alerts

\* Alerts of every severity push the weighted sum past 10: the score is 0.
C18_Witness ==
    \E i \in ScoredResults :
        /\ RepoOf(i).dependabot_enabled
        /\ \A s \in Severities : RepoOf(i).alerts[s] = MaxAlerts
        /\ results[i].alert_score = 0

\* Alerts of one severity only: the score lies strictly between 0 and 100.
C18_WitnessPartial ==
    \E i \in ScoredResults :
        /\ RepoOf(i).dependabot_enabled
        /\ results[i].alert_score > 0
        /\ results[i].alert_score < 1000

\* C19: the overall_score of every scored repository lies in [0, 100].
C19_OverallScoreInRange ==
    \A i \in ScoredResults :
        /\ results[i].overall_score.num >= 0
        /\ results[i].overall_score.num <= 100 * results[i].overall_score.den

\* The repositories whose check fails (returns None).
FailingRepos == {i \in 1..Len(org_repos) : ~Truthy(ResultOf(i))}

\* C20: whatever subset of the repositories fails, from none to all,
\* scan_organization completes without raising and the results it
\* aggregates are exactly those of the repositories that did not fail.
C20_FailuresExcludedScanCompletes ==
    (script = "repo_health_check" /\ h_pc = "done" /\ org_repos # <<>>) =>
        /\ scan_outcome = "returned"
        /\ {results[i].repository : i \in 1..Len(results)}
              = (1..Len(org_repos)) \ FailingRepos

\* C21: at no time are more than scanning.max_workers checks in progress;
\* every repository is checked exactly once (it is queued, in progress or
\* finished, never two of these, and finished when the scan is done); the
\* table is built only after every submitted check has completed; and the
\* results collected are those of the repositories whose check returned
\* metrics, whatever the order in which the checks completed.
C21_BoundedFanOut ==
    script = "repo_health_check" =>
        /\ Cardinality(h_running) <= health_config.max_workers
        /\ h_pc # "start" =>
              /\ Range(h_queue) \cup h_running \cup h_finished = 1..Len(org_repos)
              /\ Range(h_queue) \cap h_running = {}
              /\ Range(h_queue) \cap h_finished = {}
              /\ h_running \cap h_finished = {}
              /\ Cardinality(Range(h_queue)) = Len(h_queue)
        /\ h_collected \subseteq h_finished
        /\ Len(results) = Cardinality({i \in h_collected : Truthy(ResultOf(i))})
        /\ h_pc = "done" =>
              /\ h_finished = 1..Len(org_repos)
              /\ h_queue = <<>> /\ h_running = {}
              /\ Range(results) = {ResultOf(i) : i \in {j \in 1..Len(org_repos) :
                                                           Truthy(ResultOf(j))}}

\* More repositories than workers: the pool is full and a check waits.
C21_Witness ==
    /\ script = "repo_health_check"
    /\ h_pc = "scanning"
    /\ Len(org_repos) > health_config.max_workers
    /\ Cardinality(h_running) = health_config.max_workers
    /\ h_queue # <<>>
    /\ h_finished # {}

\* A scan that is done collected its results out of submission order.
C21_WitnessOrder ==
    /\ script = "repo_health_check"
    /\ h_pc = "done"
    /\ Len(results) >= 2
    /\ results[1].repository > results[2].repository

\* C30: a required file stored in the repository root under a name that
\* differs from the configured one only in letter case (readme.md for
\* README.md) counts as present in required_files_score, and the repository
\* gets a scored result.
C30_CaseInsensitiveRequiredFile ==
    \A i \in h_collected :
        (~org_repos[i].archived /\ README_LOWER \in org_repos[i].root) =>
            \E k \in ScoredResults :
                /\ results[k].repository = i
                /\ results[k].required_files_score.num * TotalRequiredWeight
                      >= 100 * RequiredWeight(README_MD)
                             * results[k].required_files_score.den

\* The users whose latest review is an approval.
LatestApprovers == {u \in Users : LastReviewOf(pr_reviews, u) = "APPROVED"}

\* C25: only a reviewer's latest review counts. A pull request passes
\* validate_pr_requirements, or _check_required_reviews, only if the users
\* whose latest review is APPROVED number at least required_approvals; an
\* approval followed by a later review in another state is not counted.
C25_OnlyLatestReviewCounts ==
    /\ (CheckReturned /\ meets_requirements) =>
           Cardinality(LatestApprovers) >= required_approvals
    /\ (script = "validate_pr_requirements" /\ v_pc \in {"result", "done"}
            /\ v_result = "True") =>
           Cardinality(LatestApprovers) >= required_approvals

\* The requests of the current run of sync_team_members that fetched the
\* members and failed.
FailedFetches == {i \in CallsOp(m_calls, "get_members") : ~m_calls[i].ok}

\* C27: a failure to read the actual state never causes removals.  In a run
\* of sync_team_members whose fetch of the members failed no
\* remove_membership call is issued, for an empty as well as a non-empty
\* desired list; in a run of sync_subteams that could not list the
\* sub-teams no sub-team is deleted; in a run of sync_team_repos whose
\* team.get_repos() failed no repository is revoked.
C27_FetchFailureRemovesNothing ==
    /\ FailedFetches # {} => CallsOp(m_calls, "remove_membership") = {}
    /\ (script = "team_manage_subteams" /\ s_pc # "idle" /\ ~s_fetch_ok) =>
           {i \in 1..Len(s_calls) : s_calls[i].op = "delete_subteam"} = {}
    /\ (script = "team_manage_resource" /\ ~r_fetch_ok) =>
           /\ {i \in 1..Len(r_calls) : r_calls[i].op = "DELETE"} = {}
           /\ r_outside \/ team_repos = r_before

\* A run of sync_team_members returned after its fetch failed, while the team
\* has a member the configuration does not list.
C27_Witness ==
    /\ script = "team_manage_membership"
    /\ m_pc = "done"
    /\ FailedFetches # {}
    /\ team_roster \ desired_members # {}

\* The same with an empty members list (remove_all_members).
C27_WitnessRemoveAll ==
    /\ script = "team_manage_membership"
    /\ m_pc = "done"
    /\ FailedFetches # {}
    /\ team_roster # {}
    /\ desired_members = {}

\* A run of sync_subteams finished without the list of sub-teams, while the
\* parent has a sub-team the configuration does not name.
C27_WitnessSubteams ==
    /\ script = "team_manage_subteams"
    /\ s_pc = "done"
    /\ ~s_fetch_ok
    /\ remote_subteams \ desired_sub_teams # {}

\* A run of sync_team_repos ended after team.get_repos() failed, while the
\* team has a repository the configuration does not list.
C27_WitnessRepos ==
    /\ script = "team_manage_resource"
    /\ r_pc = "done"
    /\ ~r_fetch_ok
    /\ Granted(team_repos) \ Range(desired_repos) # {}

\* The requests of the run with the given operation on the given team.
TeamCalls(op, team) ==
    {i \in 1..Len(d_calls) : d_calls[i].op = op /\ d_calls[i].team = team}

\* C24: delete_github_team issues the delete of every sub-team of the team
\* before the delete of the parent team; a failure deleting one sub-team stops
\* neither the attempts for the remaining sub-teams nor the one for the
\* parent; it returns True exactly when the parent team's delete succeeded
\* and False when the team lookup or the parent delete failed.
C24_SubteamsBeforeParent ==
    \A t \in ParentTeamNames :
        /\ \A k \in TeamCalls("delete_team", t) : \A s \in d_listed[t] :
              \E j \in TeamCalls("delete_subteam", t) : d_calls[j].sub = s /\ j < k
        /\ (d_returned[t] # "None"
               /\ \E i \in TeamCalls("get_teams", t) : d_calls[i].ok) =>
              /\ TeamCalls("delete_team", t) # {}
              /\ \A s \in d_listed[t] :
                    \E j \in TeamCalls("delete_subteam", t) : d_calls[j].sub = s
        /\ d_returned[t] = "True" <=>
              \E k \in TeamCalls("delete_team", t) : d_calls[k].ok
        /\ ((\E i \in TeamCalls("get_team_by_slug", t) : ~d_calls[i].ok)
               \/ (\E k \in TeamCalls("delete_team", t) : ~d_calls[k].ok)) =>
              d_returned[t] = "False"

\* A team with two sub-teams: the delete of one of them failed, the other and
\* the parent were deleted and delete_github_team returned True.
C24_Witness ==
    \E t \in ParentTeamNames :
        /\ d_returned[t] = "True"
        /\ Cardinality(d_listed[t]) >= 2
        /\ \E j \in TeamCalls("delete_subteam", t) : ~d_calls[j].ok
        /\ \E j \in TeamCalls("delete_subteam", t) : d_calls[j].ok

\* The teams main removed both on GitHub and locally.
RemovedTeams ==
    {t \in ParentTeamNames : d_returned[t] = "True" /\ t \in d_dirs_before \ team_dirs}

C26_WitnessDirectoryKept ==
    /\ script = "team_manage_parent_teams"
    /\ d_pc = "done"
    /\ commit_calls = <<>>
    /\ \E t \in team_dirs : d_returned[t] = "True"

\* C22: configuration errors fail fast with a non-zero exit.  When a
\* teams.yml that main of a team sync script processed is malformed YAML or
\* lacks a 'teams' mapping or team_name, main returns a non-zero exit code.
C22_ConfigErrorNonZeroExit ==
    (script \in MainScripts /\ c_pc = "exited"
        /\ \E i \in 1..(c_idx - 1) : team_files[i] # "valid") =>
        main_exit # 0

\* C23: if the file already holds a team with the same team_name,
\* update_teams_config returns False and leaves the file unchanged;
\* otherwise it appends the new team as the last entry and returns True.
\* After any sequence of calls on a file whose team names start out unique
\* the team names are unique and every entry the file started with is still
\* there, unchanged and in its place.
C23_UpdateKeepsNamesUnique ==
    script = "process_team_configuration" =>
        LET before == yaml_load(u_before).teams
            after == yaml_load(teams_yml).teams
            initial == yaml_load(u_initial).teams
        IN  /\ u_calls > 0 =>
                  IF \E i \in 1..Len(before) : before[i].team_name = u_new.team_name
                    THEN u_result = "False" /\ teams_yml = u_before
                    ELSE u_result = "True" /\ after = Append(before, u_new)
            /\ UniqueNames(after)
            /\ Len(after) >= Len(initial)
            /\ \A i \in 1..Len(initial) : after[i] = initial[i]

\* The file holds a team named "null" and a team without a name, and the
\* latest call was refused as a duplicate.
C23_Witness ==
    /\ script = "process_team_configuration"
    /\ u_result = "False"
    /\ HasTeam(yaml_load(teams_yml).teams, Str("null"))
    /\ HasTeam(yaml_load(teams_yml).teams, NoneValue)
    /\ Len(u_initial.teams) >= 1

\* C28: required status checks converge to the desired set.  After
\* validate_repository_config reported a required_status_checks difference
\* and apply_repository_changes applied it with every call succeeding, the
\* branch's contexts equal the desired ones, every context listed under
\* 'remove' is gone, and a second validation reports no change.
C28_StatusChecksConverge ==
    (script = "repo_configuration_management" /\ g_applied) =>
        /\ branch_contexts = desired_contexts
        /\ branch_contexts \cap g_changes.remove = {}
        /\ (g_pc = "done" /\ g_validate_ok) => ~g_second.changed

\* C29: the permission configured for a team reaches the API.  For a team
\* whose per-team teams.yml was written by create_team_directory from a root
\* entry with repository_permissions = P, sync_team_repositories grants the
\* team's repositories the normalized form of P (write gives push), not a
\* default.
C29_ConfiguredPermissionReachesApi ==
    (script = "team_setup_teams" /\ t_pc = "done" /\ t_written) =>
        \A r \in Granted(t_granted) :
            t_granted[r] = ApiPermission(root_team.repository_permissions)

(***************************************************************************)
(* Specifications                                                          *)
(***************************************************************************)
vars == <<script, mvars, svars, rvars, bvars, pvars, hvars, dvars, cvars,
          uvars, gvars, tvars>>

MembersNext ==
    \/ SyncTeamMembers
    \/ SyncTeamMemberships
    \/ GetTeamMembers
    \/ AddMember
    \/ StartRemove
    \/ RemoveMember
    \/ RemoveAllMembers
    \/ ReturnSync
    \/ NextRun
    \/ OutsideMemberChange

SubteamsNext ==
    \/ SyncSubteams
    \/ CreateSubteam
    \/ StartDelete
    \/ DeleteSubteam
    \/ ReturnSubteams
    \/ NextSubteamsRun
    \/ OutsideSubteamChange

\* team_manage_membership.py alone.
InitMembers ==
    /\ script = "team_manage_membership"
    /\ team_roster \in SUBSET Logins
    /\ MembersStart
    /\ SubteamsIdle
    /\ ReposIdle
    /\ BranchIdle
    /\ ReviewIdle
    /\ HealthIdle
    /\ ParentTeamsIdle
    /\ TeamMainIdle
    /\ UpdateIdle
    /\ RepoConfigIdle
    /\ TeamSetupIdle

SpecMembers == InitMembers /\ [][MembersNext]_vars

\* team_manage_subteams.py alone.
InitSubteams ==
    /\ script = "team_manage_subteams"
    /\ remote_subteams \in SUBSET SubNames
    /\ SubteamsStart
    /\ MembersIdle
    /\ ReposIdle
    /\ BranchIdle
    /\ ReviewIdle
    /\ HealthIdle
    /\ ParentTeamsIdle
    /\ TeamMainIdle
    /\ UpdateIdle
    /\ RepoConfigIdle
    /\ TeamSetupIdle

SpecSubteams == InitSubteams /\ [][SubteamsNext]_vars

ReposNext ==
    \/ SyncTeamRepos
    \/ AddOrUpdateRepo
    \/ StartRevoke
    \/ RevokeRepo
    \/ ReturnRepos
    \/ NextReposRun
    \/ OutsideRepoChange

InitRepos ==
    /\ script = "team_manage_resource"
    /\ team_repos \in [RepoNames -> RemotePermissions]
    /\ r_before = team_repos
    /\ ReposStart
    /\ MembersIdle
    /\ SubteamsIdle
    /\ BranchIdle
    /\ ReviewIdle
    /\ HealthIdle
    /\ ParentTeamsIdle
    /\ TeamMainIdle
    /\ UpdateIdle
    /\ RepoConfigIdle
    /\ TeamSetupIdle

\* team_manage_resource.py alone.
SpecRepos == InitRepos /\ [][ReposNext]_vars

BranchNext ==
    \/ GetBranchConfig
    \/ ValidateFindBranchConfig
    \/ AssignFindBranchConfig

InitBranch ==
    /\ script \in {"pr_review_manager", "validate_pr_requirements",
                   "validate_pr_assign_reviewers"}
    /\ branch_configs \in BranchMappings
    /\ target_branch \in TargetBranches
    /\ b_evaluator = "none"
    /\ b_result = NoConfig
    /\ b_pc = "idle"
    /\ MembersIdle
    /\ SubteamsIdle
    /\ ReposIdle
    /\ ReviewIdle
    /\ HealthIdle
    /\ ParentTeamsIdle
    /\ TeamMainIdle
    /\ UpdateIdle
    /\ RepoConfigIdle
    /\ TeamSetupIdle

\* The branch resolution of the two PR review evaluators.
SpecBranch == InitBranch /\ [][BranchNext]_vars

ReviewManagerNext ==
    \/ ProcessPullRequest
    \/ AssignTeams
    \/ CheckRequiredReviews
    \/ CreateStatus

InitReviewManager ==
    /\ script = "pr_review_manager"
    /\ branch_configs = ReviewBranchConfigs
    /\ target_branch \in ReviewTargets
    /\ b_evaluator = "none"
    /\ b_result = NoConfig
    /\ b_pc = "idle"
    /\ pr_reviews \in ReviewLists
    /\ org_team_members \in [Teams -> SUBSET Users]
    /\ required_approvals \in 0..MaxApprovals
    /\ required_teams \in SUBSET Teams
    /\ reviews_fetch_ok \in BOOLEAN
    /\ teams_lookup_ok \in [Users -> BOOLEAN]
    /\ github_output_set = TRUE
    /\ ReviewStart
    /\ MembersIdle
    /\ SubteamsIdle
    /\ ReposIdle
    /\ HealthIdle
    /\ ParentTeamsIdle
    /\ TeamMainIdle
    /\ UpdateIdle
    /\ RepoConfigIdle
    /\ TeamSetupIdle

\* pr_review_manager.py processing one pull request.
SpecReviewManager == InitReviewManager /\ [][ReviewManagerNext]_vars

ValidateNext ==
    \/ ValidateMain
    \/ ValidateLoad
    \/ ValidateTeams
    \/ ValidateReviews
    \/ ValidateExit

InitValidate ==
    /\ script = "validate_pr_requirements"
    /\ branch_configs = ReviewBranchConfigs
    /\ target_branch \in ReviewTargets
    /\ b_evaluator = "none"
    /\ b_result = NoConfig
    /\ b_pc = "idle"
    /\ pr_reviews \in ReviewLists
    /\ org_team_members \in [Teams -> SUBSET Users]
    /\ required_approvals \in 0..MaxApprovals
    /\ required_teams \in SUBSET Teams
    /\ reviews_fetch_ok \in BOOLEAN
    /\ teams_lookup_ok = [u \in Users |-> TRUE]
    /\ github_output_set \in BOOLEAN
    /\ ReviewStart
    /\ MembersIdle
    /\ SubteamsIdle
    /\ ReposIdle
    /\ HealthIdle
    /\ ParentTeamsIdle
    /\ TeamMainIdle
    /\ UpdateIdle
    /\ RepoConfigIdle
    /\ TeamSetupIdle

\* validate_pr_requirements.py validating one pull request.
SpecValidate == InitValidate /\ [][ValidateNext]_vars

HealthNext ==
    \/ ScanOrganization
    \/ StartCheck
    \/ FinishCheck
    \/ CollectResult
    \/ BuildTable

InitHealth ==
    /\ script = "repo_health_check"
    /\ org_repos \in OrgRepoLists
    /\ health_config \in HealthConfigs
    /\ HealthStart
    /\ MembersIdle
    /\ SubteamsIdle
    /\ ReposIdle
    /\ BranchIdle
    /\ ReviewIdle
    /\ ParentTeamsIdle
    /\ TeamMainIdle
    /\ UpdateIdle
    /\ RepoConfigIdle
    /\ TeamSetupIdle

\* repo_health_check.py scanning one organization.
SpecHealth == InitHealth /\ [][HealthNext]_vars

\* Either of the two scripts, one per process.
TeamsInit == InitMembers \/ InitSubteams

TeamsNext ==
    \/ SyncTeamMembers
    \/ SyncTeamMemberships
    \/ GetTeamMembers
    \/ AddMember
    \/ StartRemove
    \/ RemoveMember
    \/ RemoveAllMembers
    \/ ReturnSync
    \/ NextRun
    \/ OutsideMemberChange
    \/ SyncSubteams
    \/ CreateSubteam
    \/ StartDelete
    \/ DeleteSubteam
    \/ ReturnSubteams
    \/ NextSubteamsRun
    \/ OutsideSubteamChange

SpecTeams == TeamsInit /\ [][TeamsNext]_vars

\* Any of the three reconciling scripts, one per process.
ReconcilersInit == InitMembers \/ InitSubteams \/ InitRepos

ReconcilersNext ==
    \/ SyncTeamMembers
    \/ SyncTeamMemberships
    \/ GetTeamMembers
    \/ AddMember
    \/ StartRemove
    \/ RemoveMember
    \/ RemoveAllMembers
    \/ ReturnSync
    \/ NextRun
    \/ OutsideMemberChange
    \/ SyncSubteams
    \/ CreateSubteam
    \/ StartDelete
    \/ DeleteSubteam
    \/ ReturnSubteams
    \/ NextSubteamsRun
    \/ OutsideSubteamChange
    \/ SyncTeamRepos
    \/ AddOrUpdateRepo
    \/ StartRevoke
    \/ RevokeRepo
    \/ ReturnRepos
    \/ NextReposRun
    \/ OutsideRepoChange

SpecReconcilers == ReconcilersInit /\ [][ReconcilersNext]_vars

ParentTeamsNext ==
    \/ ParentTeamsMain
    \/ DeleteGithubTeam
    \/ DeleteSubTeam
    \/ DeleteParentTeam
    \/ DeleteTeamDirectory
    \/ CommitChanges

InitParentTeams ==
    /\ script = "team_manage_parent_teams"
    /\ team_dirs \in SUBSET ParentTeamNames
    /\ configured_teams \in SUBSET ParentTeamNames
    /\ gh_teams = ParentTeamNames
    /\ gh_subteams \in [ParentTeamNames -> {{}, ChildTeams}]
    /\ ParentTeamsStart
    /\ MembersIdle
    /\ SubteamsIdle
    /\ ReposIdle
    /\ BranchIdle
    /\ ReviewIdle
    /\ HealthIdle
    /\ TeamMainIdle
    /\ UpdateIdle
    /\ RepoConfigIdle
    /\ TeamSetupIdle

\* team_manage_parent_teams.py removing the teams that left the root file.
SpecParentTeams == InitParentTeams /\ [][ParentTeamsNext]_vars

TeamMainNext ==
    \/ TeamMain
    \/ ProcessTeamFile
    \/ ReturnMain

InitTeamMain ==
    /\ script \in MainScripts
    /\ env_set \in BOOLEAN
    /\ org_ok \in BOOLEAN
    /\ team_files \in TeamFileLists
    /\ TeamMainStart
    /\ MembersIdle
    /\ SubteamsIdle
    /\ ReposIdle
    /\ BranchIdle
    /\ ReviewIdle
    /\ HealthIdle
    /\ ParentTeamsIdle
    /\ UpdateIdle
    /\ RepoConfigIdle
    /\ TeamSetupIdle

\* main of one of the three team sync scripts.
SpecTeamMain == InitTeamMain /\ [][TeamMainNext]_vars

UpdateNext ==
    \/ UpdateTeamsConfig

InitUpdate ==
    /\ script = "process_team_configuration"
    /\ \E config \in InitialConfigs :
        /\ teams_yml = yaml_dump(config)
        /\ u_initial = yaml_dump(config)
        /\ u_before = yaml_dump(config)
    /\ u_new = [team_name |-> NoneValue, project |-> "NewProject"]
    /\ u_result = "None"
    /\ u_calls = 0
    /\ MembersIdle
    /\ SubteamsIdle
    /\ ReposIdle
    /\ BranchIdle
    /\ ReviewIdle
    /\ HealthIdle
    /\ ParentTeamsIdle
    /\ TeamMainIdle
    /\ RepoConfigIdle
    /\ TeamSetupIdle

\* process_team_configuration.py: update_teams_config called again and again.
SpecUpdate == InitUpdate /\ [][UpdateNext]_vars

RepoConfigNext ==
    \/ ValidateRepositoryConfig
    \/ ApplyRepositoryChanges

InitRepoConfig ==
    /\ script = "repo_configuration_management"
    /\ branch_contexts \in SUBSET StatusContexts
    /\ desired_contexts \in SUBSET StatusContexts
    /\ g_changes = NoChanges
    /\ g_applied = FALSE
    /\ g_second = NoChanges
    /\ g_validate_ok = TRUE
    /\ g_pc = "validate"
    /\ MembersIdle
    /\ SubteamsIdle
    /\ ReposIdle
    /\ BranchIdle
    /\ ReviewIdle
    /\ HealthIdle
    /\ ParentTeamsIdle
    /\ TeamMainIdle
    /\ UpdateIdle
    /\ TeamSetupIdle

\* repo_configuration_management.py on one repository, run twice.
SpecRepoConfig == InitRepoConfig /\ [][RepoConfigNext]_vars

TeamSetupNext ==
    \/ CreateTeamDirectory
    \/ SyncTeamRepositories

InitTeamSetup ==
    /\ script = "team_setup_teams"
    /\ root_team \in RootTeams
    /\ \/ /\ team_file_exists = FALSE
          /\ team_file = [team_name |-> root_team.team_name]
       \/ /\ team_file_exists = TRUE
          /\ team_file \in ExistingTeamFiles
    /\ t_written = FALSE
    /\ t_parent_permissions = READ
    /\ t_granted = [r \in RepoNames |-> NoPermission]
    /\ t_pc = "setup"
    /\ MembersIdle
    /\ SubteamsIdle
    /\ ReposIdle
    /\ BranchIdle
    /\ ReviewIdle
    /\ HealthIdle
    /\ ParentTeamsIdle
    /\ TeamMainIdle
    /\ UpdateIdle
    /\ RepoConfigIdle

\* team_setup_teams.py, then team_manage_resource.py, for one team.
SpecTeamSetup == InitTeamSetup /\ [][TeamSetupNext]_vars

====
